---------------------------- MODULE Spec2Model ----------------------------
(***************************************************************************)
(* RN4871 AVR library: circular byte queue (ringBuffer.cpp), interrupt    *)
(* driven serial transport (bleSerial.cpp), millisecond clock (wiring.cpp) *)
(* and the command/response protocol engine (rn4871.cpp).                  *)
(*                                                                         *)
(* Bytes are modelled by their unsigned value 0..255; text is a sequence   *)
(* of byte values (ASCII codes).                                           *)
(***************************************************************************)
EXTENDS Integers, Sequences, FiniteSets, TLC

(***************************************************************************)
(* Bounds of the model.                                                    *)
(***************************************************************************)
\* calls made on the stand-alone queue in SpecRB
MaxOps == 13
\* push/pop pairs used in SpecRT to move head and tail before the round trip
MaxAdvance == 7
\* freely chosen bytes the module sends during one wait
MaxRx == 4
\* calls the application makes in one session of SpecMode
MaxCalls == 3
\* bytes a slow sender's scripted stream may be ahead of the foreground
SlowLag == 2
\* how many bytes past the end of a string blePrintString is followed
MaxPast == 2
\* SpecIO: calls the application makes, and bytes that arrive meanwhile
MaxIo == 3
MaxArrivals == 3

(***************************************************************************)
(* Integer helpers: C's bitwise and on non-negative ints.                  *)
(***************************************************************************)
RECURSIVE BitAnd(_, _)
\* an index that is not masked (fault model)
BitAnd_none(a, b) == a

\* a & b
BitAnd(a, b) ==
    IF a = 0 \/ b = 0 THEN 0
    ELSE (a % 2) * (b % 2) + 2 * BitAnd(a \div 2, b \div 2)

IsPow2(n) == n \in {1, 2, 4, 8, 16, 32, 64, 128}

(***************************************************************************)
(* ringBuffer.cpp                                                          *)
(***************************************************************************)
\* capacities handed to RingBuffer_init in the stand-alone queue
\* specifications (6 is not a power of two: a contract violation)
RBSizes == {1, 2, 4, 6, 8}
\* byte values pushed in the stand-alone queue specifications
RBBytes == {65, 66}

RingBuffer_init(size) ==
    [size |-> size, head |-> 0, tail |-> 0, buffer |-> [i \in 0..(size - 1) |-> 0]]

\* a push that stores without the full test (used as a fault model)
RingBuffer_push_nocheck(q, data) ==
    LET next_head == BitAnd(q.head + 1, q.size - 1)
    IN [ret |-> TRUE,
        rb  |-> [q EXCEPT !.buffer[q.head] = data, !.head = next_head]]

\* bool RingBuffer_push(rb, data): the returned flag and the queue afterwards
RingBuffer_push(q, data) ==
    LET next_head == BitAnd(q.head + 1, q.size - 1)
    IN IF next_head = q.tail
       THEN [ret |-> FALSE, rb |-> q]
       ELSE [ret |-> TRUE,
             rb  |-> [q EXCEPT !.buffer[q.head] = data, !.head = next_head]]

\* a pop that hands out the newest byte instead of the oldest (fault model)
RingBuffer_pop_newest(q, old) ==
    IF q.head = q.tail
    THEN [ret |-> FALSE, data |-> old, rb |-> q]
    ELSE [ret  |-> TRUE,
          data |-> q.buffer[BitAnd(q.head + q.size - 1, q.size - 1)],
          rb   |-> [q EXCEPT !.tail = BitAnd(q.tail + 1, q.size - 1)]]

\* a pop that stores through the caller's pointer before the empty test
\* (fault model)
RingBuffer_pop_writes(q, old) ==
    IF q.head = q.tail
    THEN [ret |-> FALSE, data |-> q.buffer[q.tail], rb |-> q]
    ELSE [ret  |-> TRUE,
          data |-> q.buffer[q.tail],
          rb   |-> [q EXCEPT !.tail = BitAnd(q.tail + 1, q.size - 1)]]

\* bool RingBuffer_pop(rb, &data): old is the caller's byte before the call
RingBuffer_pop(q, old) ==
    IF q.head = q.tail
    THEN [ret |-> FALSE, data |-> old, rb |-> q]
    ELSE [ret  |-> TRUE,
          data |-> q.buffer[q.tail],
          rb   |-> [q EXCEPT !.tail = BitAnd(q.tail + 1, q.size - 1)]]

RingBuffer_available(q) == BitAnd(q.size + q.head - q.tail, q.size - 1)

RingBuffer_is_empty(q) == q.head = q.tail

\* a full test that forgets the index mask (fault model)
RingBuffer_is_full_nomask(q) == (q.head + 1) = q.tail

RingBuffer_is_full(q) == BitAnd(q.head + 1, q.size - 1) = q.tail

(***************************************************************************)
(* Text: a C string is the sequence of its bytes without the terminating   *)
(* NUL.                                                                    *)
(***************************************************************************)
Ord ==
    [c \in {"0", "1", "2", "3", "4", "5", "6", "7", "8", "9"} |->
        CASE c = "0" -> 48 [] c = "1" -> 49 [] c = "2" -> 50 [] c = "3" -> 51
          [] c = "4" -> 52 [] c = "5" -> 53 [] c = "6" -> 54 [] c = "7" -> 55
          [] c = "8" -> 56 [] c = "9" -> 57] @@
    [c \in {"A", "B", "C", "D", "E", "F"} |->
        CASE c = "A" -> 65 [] c = "B" -> 66 [] c = "C" -> 67 [] c = "D" -> 68
          [] c = "E" -> 69 [] c = "F" -> 70] @@
    [c \in {"G", "K", "L", "M", "N", "O", "P", "R", "S", "X", "Z"} |->
        CASE c = "G" -> 71 [] c = "Z" -> 90 [] c = "K" -> 75 [] c = "L" -> 76 [] c = "M" -> 77 [] c = "N" -> 78
          [] c = "O" -> 79 [] c = "P" -> 80 [] c = "R" -> 82 [] c = "S" -> 83
          [] c = "X" -> 88] @@
    [c \in {"b", "e", "g", "i", "n", "o", "r", "t"} |->
        CASE c = "b" -> 98 [] c = "e" -> 101 [] c = "g" -> 103 [] c = "i" -> 105
          [] c = "n" -> 110 [] c = "o" -> 111 [] c = "r" -> 114 [] c = "t" -> 116] @@
    [c \in {"$", ",", "-", ">", " "} |->
        CASE c = "$" -> 36 [] c = "," -> 44 [] c = "-" -> 45 [] c = ">" -> 62
          [] c = " " -> 32]

Txt(s) == [i \in 1..Len(s) |-> Ord[s[i]]]

NUL == 0
LF == 10

Take(s, n) == SubSeq(s, 1, IF n < Len(s) THEN n ELSE Len(s))

\* strstr(hay, needle) != NULL on C strings
Contains(hay, needle) ==
    \E i \in 0..(Len(hay) - Len(needle)) :
        \A j \in 1..Len(needle) : hay[i + j] = needle[j]

\* a substring test that only looks at the start of hay (fault model)
StartsWith(hay, needle) ==
    /\ Len(hay) >= Len(needle)
    /\ \A j \in 1..Len(needle) : hay[j] = needle[j]

\* the C string held in a char array: the bytes before the first NUL
CStrFrom(buf, i, size) ==
    LET ends == {j \in i..(size - 1) : buf[j] = NUL} \cup {size}
        stop == CHOOSE j \in ends : \A k \in ends : j <= k
    IN [k \in 1..(stop - i) |-> buf[i + k - 1]]

(***************************************************************************)
(* wiring.h / wiring.cpp: the millisecond clock.                           *)
(***************************************************************************)
MILLIS_INC == 2
FRACT_INC == 6
FRACT_MAX == 125
\* An unsigned long is four bytes on the AVR, kept here least significant
\* byte first; the arithmetic below is arithmetic modulo 2^32 done on the
\* two 16-bit halves.
Lo16(v) == v[1] + 256 * v[2]
Hi16(v) == v[3] + 256 * v[4]
U32(hi, lo) == <<lo % 256, lo \div 256, hi % 256, hi \div 256>>

\* v + n for a small n
UAdd32(v, n) ==
    LET lo == Lo16(v) + n
        hi == Hi16(v) + (lo \div 65536)
    IN U32(hi % 65536, lo % 65536)

\* a subtraction that is not reduced modulo 2^32 (fault model: signed or
\* wider arithmetic), so a start just before the wrap is never reached
USub32_nowrap(a, b) ==
    IF Hi16(a) < Hi16(b) \/ (Hi16(a) = Hi16(b) /\ Lo16(a) < Lo16(b))
    THEN U32(0, 0)
    ELSE LET lo == Lo16(a) - Lo16(b)
             borrow == IF lo < 0 THEN 1 ELSE 0
         IN U32(Hi16(a) - Hi16(b) - borrow, (lo + 65536) % 65536)

\* uint32_t subtraction a - b
USub32(a, b) ==
    LET lo == Lo16(a) - Lo16(b)
        borrow == IF lo < 0 THEN 1 ELSE 0
        hi == Hi16(a) - Hi16(b) - borrow
    IN U32((hi + 65536) % 65536, (lo + 65536) % 65536)

\* comparison of an unsigned long with a uint16_t
ULess16(v, t) == Hi16(v) = 0 /\ Lo16(v) < t

(***************************************************************************)
(* bleSerial.h, rn4871.cpp: sizes.                                         *)
(***************************************************************************)
BLE_BUFFER_SIZE == 64
DEFAULT_INPUT_BUFFER_SIZE == 128

(***************************************************************************)
(* rn4871_const.h: protocol constants.                                     *)
(***************************************************************************)
CR == 13
AOK_RESP == Txt(<<"A", "O", "K">>)
LIST_SERVICES_AND_CHARS == Txt(<<"L", "S">>)
DEFAULT_CMD_TIMEOUT == 200
REBOOT == Txt(<<"R", ",", "1">>)
REBOOTING_RESP == Txt(<<"R", "e", "b", "o", "o", "t", "i", "n", "g">>)
ENTER_CMD == Txt(<<"$", "$", "$">>)
EXIT_CMD == Txt(<<"-", "-", "-">>)
PROMPT == Txt(<<"C", "M", "D", ">">>)
PROMPT_CR == PROMPT \o <<CR>>
DEFINE_SERVICE_UUID == Txt(<<"P", "S", ",">>)
DEFINE_CHARACT_UUID == Txt(<<"P", "C", ",">>)
PRIVATE_SERVICE_LEN == 32
PUBLIC_SERVICE_LEN == 4
GET_CONNECTION_STATUS == Txt(<<"G", "K">>)
NONE_RESP == Txt(<<"n", "o", "n", "e">>)
CLEAR_ALL_SERVICES == Txt(<<"P", "Z">>)
SET_SERIALIZED_NAME == Txt(<<"S", "-", ",">>)
MAX_SERIALIZED_NAME_LEN == 15
MAX_DEVICE_NAME_LEN == 20

(***************************************************************************)
(* rn4871.cpp, parseLsCmd: what is done with one line of the listing.      *)
(***************************************************************************)
\* strchr(s, ch): the position of the first ch in s, 0 for NULL
RECURSIVE IndexOf(_, _, _)
IndexOf(s, ch, i) ==
    IF i > Len(s) THEN 0
    ELSE IF s[i] = ch THEN i
    ELSE IndexOf(s, ch, i + 1)

\* the same with the decimal digits left as character codes (fault model)
HexDigit_raw(b) ==
    IF b >= 48 /\ b <= 57 THEN b
    ELSE IF b >= 65 /\ b <= 70 THEN b - 65 + 10
    ELSE IF b >= 97 /\ b <= 102 THEN b - 97 + 10
    ELSE -1

\* the value of one hexadecimal character, -1 for any other character
HexDigit(b) ==
    IF b >= 48 /\ b <= 57 THEN b - 48
    ELSE IF b >= 65 /\ b <= 70 THEN b - 65 + 10
    ELSE IF b >= 97 /\ b <= 102 THEN b - 97 + 10
    ELSE -1

\* for (i = 0; i < n; i++) { v <<= 4; v |= digit; } in an unsigned of
\* the given width; a character that is no digit sets v = 0 and leaves
\* the loop
RECURSIVE HexField(_, _, _, _, _)
HexField(s, i, n, acc, width) ==
    IF i > n THEN acc
    ELSE IF HexDigit(s[i]) = -1 THEN 0
    ELSE HexField(s, i + 1, n, ((acc * 16) % width) + HexDigit(s[i]), width)

\* a test for the terminator that any line with END in it passes (fault
\* model)
IsEndLine_contains(line) == Contains(line, Txt(<<"E", "N", "D">>))

\* strcmp(uartBuffer, "END") == 0
IsEndLine(line) == line = Txt(<<"E", "N", "D">>)

\* a line that is examined only while no handle is remembered (fault
\* model): the first match wins
LsLine_first(line, targetUuid, targetProperty, foundHandle) ==
    LET n == Len(targetUuid)
    IN IF foundHandle # 0 \/ ~Contains(line, targetUuid) \/ Len(line) < n + 8
       THEN foundHandle
       ELSE IF HexField(line, n + 7, n + 8, 0, 256) = targetProperty
       THEN HexField(line, n + 2, n + 5, 0, 65536)
       ELSE foundHandle

\* foundHandle after the line has been examined (the block that appears
\* twice in parseLsCmd)
LsLine(line, targetUuid, targetProperty, foundHandle) ==
    IF ~Contains(line, targetUuid) THEN foundHandle
    ELSE LET firstComma == IndexOf(line, Ord[","], 1)
         IN IF firstComma = 0 \/ firstComma = Len(line) THEN foundHandle
            ELSE LET afterFirst == SubSeq(line, firstComma + 1, Len(line))
                     secondComma == IndexOf(afterFirst, Ord[","], 1)
                 IN IF Len(afterFirst) < 4 THEN foundHandle
                    ELSE IF secondComma = 0 \/ secondComma = Len(afterFirst)
                    THEN foundHandle
                    ELSE LET afterSecond == SubSeq(afterFirst, secondComma + 1,
                                                   Len(afterFirst))
                         IN IF Len(afterSecond) < 2 THEN foundHandle
                            ELSE IF HexField(afterSecond, 1, 2, 0, 256) = targetProperty
                            THEN HexField(afterFirst, 1, 4, 0, 65536)
                            ELSE foundHandle

(***************************************************************************)
(* State.                                                                  *)
(***************************************************************************)
VARIABLES
    rb,         \* the stand-alone RingBuffer_t
    data,       \* the caller's output byte handed to RingBuffer_pop
    opName,     \* last call made on rb: "init", "push" or "pop"
    opRet,      \* what that call returned
    opAvail,    \* RingBuffer_available(rb) just before that call
    nPushOk,    \* pushes that returned true since RingBuffer_init
    nPopOk,     \* pops that returned true since RingBuffer_init
    nOps,       \* calls made since RingBuffer_init
    failed,     \* which of "push", "pop" have returned false so far
    rtIn,       \* round trip: the byte sequence to push
    rtOut,      \* round trip: the bytes popped so far
    rtOk,       \* round trip: every call so far returned true
    rtPhase,    \* round trip: "advance", "push", "pop" or "done"
    rx,         \* ble.rx_buffer with ble.rx_storage
    tx,         \* ble.tx_buffer with ble.tx_storage
    udrie,      \* bit UDRIE0 of UCSR0B: transmit-ready interrupt enabled
    wire,       \* the bytes written to UDR0 so far, in order
    rxStream,   \* the bytes the module sends first
    rxPos,      \* how many bytes the receive handler has taken from UDR0
    rxFree,     \* how many further, freely chosen bytes the module may send
    rxGate,     \* the module answers only once a CR has gone out on the wire
    rxLag,      \* the module sends on only while fewer bytes than this are queued
    seen,       \* the bytes the running wait has read from the RX queue
    timer0_millis,
    timer0_fract,
    charSigned, \* whether plain char is signed in this build
    deviceName, \* char deviceName[MAX_DEVICE_NAME_LEN]
    fg,         \* the foreground: program counter, call stack and locals
    uartBuffer, \* char uartBuffer[DEFAULT_INPUT_BUFFER_SIZE]
    operationMode

rbVars == <<rb, data, opName, opRet, opAvail, nPushOk, nPopOk, nOps, failed>>
rtVars == <<rtIn, rtOut, rtOk, rtPhase>>
queueVars == <<rbVars, rtVars>>
uartVars == <<rx, tx, udrie, wire>>
moduleVars == <<rxStream, rxPos, rxFree, rxGate, rxLag>>
clockVars == <<timer0_millis, timer0_fract>>
engineVars == <<seen, charSigned, fg, uartBuffer, operationMode, deviceName>>
ioVars == <<uartVars, moduleVars, clockVars, engineVars>>
vars == <<queueVars, ioVars>>

(***************************************************************************)
(* The foreground's locals.  One record: no two of the modelled functions  *)
(* that share a field are active at the same time.                         *)
(***************************************************************************)
FgIdle ==
    [pc |-> "done", stack |-> <<>>, ret |-> FALSE,
     ch |-> 0, str |-> <<>>, si |-> 0, cmd |-> <<>>,
     expected |-> <<>>, timeout |-> 0, start |-> U32(0, 0), index |-> 0,
     val |-> 0, targetUuid |-> <<>>, targetProperty |-> 0, foundHandle |-> 0,
     endReceived |-> FALSE, gotCarriageReturn |-> FALSE,
     uuid |-> <<>>, property |-> 0, octetLen |-> 0,
     initOk |-> FALSE, top |-> "none", calls |-> 0, log |-> <<>>,
     arrived |-> 0, sent |-> 0, flushedAt |-> 0,
     startTime |-> U32(0, 0), bytesRead |-> 0, name |-> <<>>, lines |-> <<>>,
     length |-> 0,
     SREG_I |-> TRUE, oldSREG |-> TRUE, m |-> <<>>, before |-> TRUE,
     modeAtCall |-> "dataMode"]

\* char deviceName[MAX_DEVICE_NAME_LEN], a global: zero at startup
ZeroName == [i \in 0..(MAX_DEVICE_NAME_LEN - 1) |-> NUL]

ZeroBuffer == [i \in 0..(DEFAULT_INPUT_BUFFER_SIZE - 1) |-> NUL]

\* the transport and the engine before anything runs: the state left by
\* bleInit (which enables UDRIE0) and the static initialisers
IoIdle ==
    /\ rx = RingBuffer_init(BLE_BUFFER_SIZE)
    /\ tx = RingBuffer_init(BLE_BUFFER_SIZE)
    /\ udrie = TRUE
    /\ wire = <<>>
    /\ rxStream = <<>> /\ rxPos = 0 /\ rxFree = 0 /\ rxGate = FALSE
    /\ rxLag = BLE_BUFFER_SIZE
    /\ seen = <<>>
    /\ timer0_millis = U32(0, 0) /\ timer0_fract = 0
    /\ charSigned = TRUE
    /\ deviceName = ZeroName
    /\ fg = FgIdle
    /\ uartBuffer = ZeroBuffer
    /\ operationMode = "dataMode"

QueueIdle ==
    /\ rb = RingBuffer_init(1)
    /\ data = 0
    /\ opName = "init" /\ opRet = TRUE /\ opAvail = 0
    /\ nPushOk = 0 /\ nPopOk = 0 /\ nOps = 0
    /\ failed = {}
    /\ rtIn = <<>> /\ rtOut = <<>> /\ rtOk = TRUE /\ rtPhase = "none"

(***************************************************************************)
(* SpecRB: any sequence of push and pop calls after RingBuffer_init.       *)
(***************************************************************************)
RtIdle == rtIn = <<>> /\ rtOut = <<>> /\ rtOk = TRUE /\ rtPhase = "none"

InitRB ==
    /\ \E size \in RBSizes : rb = RingBuffer_init(size)
    /\ data \in RBBytes
    /\ opName = "init" /\ opRet = TRUE /\ opAvail = 0
    /\ nPushOk = 0 /\ nPopOk = 0 /\ nOps = 0
    /\ failed = {}
    /\ RtIdle
    /\ IoIdle

CallPush ==
    /\ nOps < MaxOps
    /\ \E b \in RBBytes :
         LET r == RingBuffer_push(rb, b)
         IN /\ rb' = r.rb
            /\ opRet' = r.ret
            /\ nPushOk' = IF r.ret THEN nPushOk + 1 ELSE nPushOk
            /\ failed' = IF r.ret THEN failed ELSE failed \cup {"push"}
    /\ opName' = "push"
    /\ opAvail' = RingBuffer_available(rb)
    /\ nOps' = nOps + 1
    /\ UNCHANGED <<data, nPopOk, rtVars, ioVars>>

CallPop ==
    /\ nOps < MaxOps
    /\ LET r == RingBuffer_pop(rb, data)
       IN /\ rb' = r.rb
          /\ data' = r.data
          /\ opRet' = r.ret
          /\ nPopOk' = IF r.ret THEN nPopOk + 1 ELSE nPopOk
          /\ failed' = IF r.ret THEN failed ELSE failed \cup {"pop"}
    /\ opName' = "pop"
    /\ opAvail' = RingBuffer_available(rb)
    /\ nOps' = nOps + 1
    /\ UNCHANGED <<nPushOk, rtVars, ioVars>>

NextRB == CallPush \/ CallPop

SpecRB == InitRB /\ [][NextRB]_vars

(***************************************************************************)
(* SpecRT: the round trip.  After RingBuffer_init the indices are moved to *)
(* any position by push/pop pairs; then, on the empty queue, a chosen byte *)
(* sequence is pushed and the same number of bytes is popped.              *)
(***************************************************************************)
RECURSIVE SeqsUpTo(_, _)
SeqsUpTo(S, n) ==
    IF n = 0 THEN {<<>>}
    ELSE LET shorter == SeqsUpTo(S, n - 1)
         IN shorter \cup {Append(s, x) : s \in {t \in shorter : Len(t) = n - 1}, x \in S}

InitRT ==
    /\ \E size \in RBSizes : rb = RingBuffer_init(size)
    /\ data \in RBBytes
    /\ opName = "init" /\ opRet = TRUE /\ opAvail = 0
    /\ nPushOk = 0 /\ nPopOk = 0 /\ nOps = 0
    /\ failed = {}
    /\ rtIn = <<>> /\ rtOut = <<>> /\ rtOk = TRUE /\ rtPhase = "advance"
    /\ IoIdle

\* one push followed by one pop: head and tail both move on by one slot
RTAdvance ==
    /\ rtPhase = "advance"
    /\ nOps < MaxAdvance
    /\ \E b \in RBBytes :
         LET p == RingBuffer_push(rb, b)
             q == RingBuffer_pop(p.rb, data)
         IN /\ p.ret /\ q.ret
            /\ rb' = q.rb
            /\ data' = q.data
    /\ nOps' = nOps + 1
    /\ UNCHANGED <<opName, opRet, opAvail, nPushOk, nPopOk, failed, rtVars, ioVars>>

\* choose the sequence [b0..bk], k <= N-2, to push on the empty queue
RTChoose ==
    /\ rtPhase = "advance"
    /\ rb.size >= 2
    /\ \E s \in SeqsUpTo(RBBytes, rb.size - 1) :
         /\ Len(s) >= 1
         /\ rtIn' = s
    /\ rtPhase' = "push"
    /\ UNCHANGED <<rbVars, rtOut, rtOk, ioVars>>

RTPush ==
    /\ rtPhase = "push"
    /\ LET r == RingBuffer_push(rb, rtIn[nPushOk + 1])
       IN /\ rb' = r.rb
          /\ rtOk' = (rtOk /\ r.ret)
          /\ opRet' = r.ret
    /\ opName' = "push"
    /\ opAvail' = RingBuffer_available(rb)
    /\ nPushOk' = nPushOk + 1
    /\ rtPhase' = IF nPushOk + 1 = Len(rtIn) THEN "pop" ELSE "push"
    /\ UNCHANGED <<data, nPopOk, nOps, failed, rtIn, rtOut, ioVars>>

RTPop ==
    /\ rtPhase = "pop"
    /\ LET r == RingBuffer_pop(rb, data)
       IN /\ rb' = r.rb
          /\ data' = r.data
          /\ rtOk' = (rtOk /\ r.ret)
          /\ opRet' = r.ret
          /\ rtOut' = Append(rtOut, r.data)
    /\ opName' = "pop"
    /\ opAvail' = RingBuffer_available(rb)
    /\ nPopOk' = nPopOk + 1
    /\ rtPhase' = IF nPopOk + 1 = Len(rtIn) THEN "done" ELSE "pop"
    /\ UNCHANGED <<nPushOk, nOps, failed, rtIn, ioVars>>

NextRT == RTAdvance \/ RTChoose \/ RTPush \/ RTPop

SpecRT == InitRT /\ [][NextRT]_vars

(***************************************************************************)
(* Foreground control: calls and returns on the modelled call stack.       *)
(***************************************************************************)
Goto(f, label) == [f EXCEPT !.pc = label]
Call(f, entry, back) == [f EXCEPT !.pc = entry, !.stack = <<back>> \o f.stack]
Return(f, value) ==
    [f EXCEPT !.pc = Head(f.stack), !.stack = Tail(f.stack), !.ret = value]

Running == fg.pc # "done"

\* a value of type char as an int: plain char is signed or unsigned
\* according to the build
CharValue(b) == IF charSigned /\ b >= 128 THEN b - 256 ELSE b
\* an int converted to char, as an int
IntToChar(v) == CharValue((v + 256) % 256)

(***************************************************************************)
(* wiring.cpp                                                              *)
(***************************************************************************)
\* The waits that read millis().  The timer interrupt is followed only
\* while one of them runs and its deadline has not passed: outside a wait
\* the counter is not read (its value at the start of a wait is any of
\* ClockStarts), and once millis() - start >= timeout further overflows
\* change nothing the wait does.
TimedLabels == {"er_loop", "er_avail", "er_read", "pl_loop", "pl_avail", "pl_read",
                "cm_wait", "cm_count", "rb_loop", "rb_avail", "rb_read",
                "ms_idle", "ms_entry", "ms_cli", "ms_load", "ms_restore", "ms_ret"}

DeadlineOpen == ULess16(USub32(timer0_millis, fg.start), fg.timeout)

\* readUntilCR: const uint16_t timeout = 1000
READ_TIMEOUT == 1000

\* The waits of getConnectionStatus and of readUntilCR.  The timer
\* interrupt is followed there while the foreground has nothing to read and
\* the module nothing more to send: an answer that is coming is taken to
\* arrive, and to be read, within one tick of the clock.
StatusLabels == {"gk_loop", "gk_avail", "gk_line"}
ReadLabels == {"ru_loop", "ru_avail", "ru_read"}

ModuleSilent == rxPos = Len(rxStream) /\ rxFree = 0 /\ RingBuffer_available(rx) = 0

ReadDeadlineOpen == ULess16(USub32(timer0_millis, fg.startTime), READ_TIMEOUT)

\* ISR(TIMER0_OVF_vect)
TimerIsr ==
    /\ fg.SREG_I
    /\ \/ fg.pc \in TimedLabels /\ DeadlineOpen
       \/ fg.pc \in StatusLabels /\ ModuleSilent /\ DeadlineOpen
       \/ fg.pc \in ReadLabels /\ ModuleSilent /\ ReadDeadlineOpen
    /\ LET f == timer0_fract + FRACT_INC
       IN IF f >= FRACT_MAX
          THEN /\ timer0_fract' = f - FRACT_MAX
               /\ timer0_millis' = UAdd32(timer0_millis, MILLIS_INC + 1)
          ELSE /\ timer0_fract' = f
               /\ timer0_millis' = UAdd32(timer0_millis, MILLIS_INC)
    /\ UNCHANGED <<queueVars, uartVars, moduleVars, engineVars>>

\* unsigned long millis(void): the read is done with interrupts disabled
\* (the steps of the read are the actions Millis... below)
millis == timer0_millis

(***************************************************************************)
(* bleSerial.cpp: the interrupt handlers.                                  *)
(***************************************************************************)
\* The module has something to send and sends it.  rxLag = BLE_BUFFER_SIZE
\* puts no limit on how far the handler runs ahead of the foreground (the
\* queue can overrun); a smaller rxLag is a sender slow enough for the
\* foreground to keep up with.
ModuleSends ==
    /\ Running
    /\ rxGate => (\E i \in 1..Len(wire) : wire[i] = CR)
    /\ RingBuffer_available(rx) < rxLag
    /\ rxPos < Len(rxStream) \/ rxFree > 0

\* ISR(USART0_RX_vect) for incoming byte b
RxPush(b) ==
    /\ rx' = RingBuffer_push(rx, b).rb
    /\ UNCHANGED <<queueVars, tx, udrie, wire, rxStream, rxGate, rxLag, clockVars, engineVars>>

RxIsr ==
    /\ ModuleSends
    /\ IF rxPos < Len(rxStream)
       THEN /\ RxPush(rxStream[rxPos + 1])
            /\ rxPos' = rxPos + 1
            /\ UNCHANGED rxFree
       ELSE /\ \E b \in {65, 79, 75, CR, LF} : RxPush(b)
            /\ rxPos' = rxPos + 1
            /\ rxFree' = rxFree - 1

\* ISR(USART0_UDRE_vect)
TxIsr ==
    /\ Running
    /\ udrie
    /\ LET r == RingBuffer_pop(tx, 0)
       IN IF r.ret
          THEN /\ tx' = r.rb
               /\ wire' = Append(wire, r.data)
               /\ UNCHANGED udrie
          ELSE /\ udrie' = FALSE
               /\ UNCHANGED <<tx, wire>>
    /\ UNCHANGED <<queueVars, rx, moduleVars, clockVars, engineVars>>

(***************************************************************************)
(* bleSerial.cpp: foreground functions, one action per step between two    *)
(* points at which a handler can run.                                      *)
(***************************************************************************)
FgOnly == UNCHANGED <<queueVars, uartVars, moduleVars, clockVars, seen, charSigned, deviceName, uartBuffer, operationMode>>

\* a flush that leaves head where it was (fault model)
ResetHead_kept(q) == q

\* head = 0
ResetHead(q) == [q EXCEPT !.head = 0]

\* a register update that leaves the bit as it was loaded (fault model)
ClearUdrie_kept(bit) == bit

\* the UDRIE0 bit of UCSR0B & ~(1 << UDRIE0)
ClearUdrie(bit) == FALSE

\* a register update that leaves the bit as it was loaded (fault model)
SetUdrie_kept(bit) == bit

\* the UDRIE0 bit of UCSR0B | (1 << UDRIE0)
SetUdrie(bit) == TRUE

\* void bleRxFlush(void): ble.rx_buffer.head = 0
RxFlushHead ==
    /\ fg.pc = "rf_head"
    /\ rx' = ResetHead(rx)
    /\ fg' = Goto(fg, "rf_tail")
    /\ UNCHANGED <<queueVars, tx, udrie, wire, moduleVars, clockVars, seen, charSigned, deviceName, uartBuffer, operationMode>>

\* void bleRxFlush(void): ble.rx_buffer.tail = 0
RxFlushTail ==
    /\ fg.pc = "rf_tail"
    /\ rx' = [rx EXCEPT !.tail = 0]
    /\ fg' = Return(fg, fg.ret)
    /\ UNCHANGED <<queueVars, tx, udrie, wire, moduleVars, clockVars, seen, charSigned, deviceName, uartBuffer, operationMode>>

\* int bleAvailable(void)
bleAvailable == RingBuffer_available(rx)

\* int bleRead(void): the value returned and the queue afterwards
bleRead ==
    LET r == RingBuffer_pop(rx, 0)
    IN [ret |-> r.ret,
        value |-> IF r.ret THEN CharValue(r.data) ELSE -1,
        byte |-> r.data,
        rb |-> r.rb]

\* the record of the bytes read: it is as long as what the module is
\* scripted to send, the free bytes and a stale byte
Noted(s, b) == IF Len(s) < Len(rxStream) + MaxRx + 1 THEN Append(s, b) ELSE s

\* a function returning a number
ReturnVal(f, value) == [Return(f, f.ret) EXCEPT !.val = value]

\* void bleTxFlush(void): UCSR0B &= ~(1 << UDRIE0), the load of the register.
\* The bit the statement clears is the only bit of UCSR0B the handlers
\* write, so the value loaded does not show in what is stored.
TxFlushLoad ==
    /\ fg.pc = "tf_udrie"
    /\ fg' = Goto(fg, "tf_store")
    /\ FgOnly

\* void bleTxFlush(void): UCSR0B &= ~(1 << UDRIE0), the store
TxFlushStore ==
    /\ fg.pc = "tf_store"
    /\ udrie' = ClearUdrie(udrie)
    /\ fg' = Goto(fg, "tf_head")
    /\ UNCHANGED <<queueVars, rx, tx, wire, moduleVars, clockVars, seen, charSigned, deviceName, uartBuffer, operationMode>>

\* void bleTxFlush(void): ble.tx_buffer.head = 0
TxFlushHead ==
    /\ fg.pc = "tf_head"
    /\ tx' = ResetHead(tx)
    /\ fg' = Goto(fg, "tf_tail")
    /\ UNCHANGED <<queueVars, rx, udrie, wire, moduleVars, clockVars, seen, charSigned, deviceName, uartBuffer, operationMode>>

\* void bleTxFlush(void): ble.tx_buffer.tail = 0
TxFlushTail ==
    /\ fg.pc = "tf_tail"
    /\ tx' = [tx EXCEPT !.tail = 0]
    /\ fg' = Return(fg, fg.ret)
    /\ UNCHANGED <<queueVars, rx, udrie, wire, moduleVars, clockVars, seen, charSigned, deviceName, uartBuffer, operationMode>>

\* bool blePrintChar(char data): the push, and return false on a full queue
PrintCharPush ==
    /\ fg.pc = "pc_push"
    /\ LET r == RingBuffer_push(tx, fg.ch)
       IN /\ tx' = r.rb
          /\ fg' = IF r.ret THEN Goto(fg, "pc_udrie") ELSE Return(fg, FALSE)
    /\ UNCHANGED <<queueVars, rx, udrie, wire, moduleVars, clockVars, seen, charSigned, deviceName, uartBuffer, operationMode>>

\* bool blePrintChar(char data): UCSR0B |= (1 << UDRIE0); return true
PrintCharUdrie ==
    /\ fg.pc = "pc_udrie"
    /\ udrie' = SetUdrie(udrie)
    /\ fg' = Return(fg, TRUE)
    /\ UNCHANGED <<queueVars, rx, tx, wire, moduleVars, clockVars, seen, charSigned, deviceName, uartBuffer, operationMode>>

\* a byte of memory that is not part of the string read: the loop of
\* blePrintString tells a zero from any other value
MemoryBytes == {NUL, 255}

\* *str for the pointer si characters into the string: the characters,
\* then the terminator, then whatever memory follows the string
CharsAt(str, si) ==
    IF si <= Len(str) THEN {str[si]}
    ELSE IF si = Len(str) + 1 THEN {NUL}
    ELSE MemoryBytes

\* void blePrintString(const char* str): while (*str)
PrintStringTest ==
    /\ fg.pc = "ps_test"
    /\ fg.si <= Len(fg.str) + MaxPast
    /\ \E c \in CharsAt(fg.str, fg.si) :
         fg' = IF c # NUL THEN Goto(fg, "ps_call") ELSE Return(fg, fg.ret)
    /\ FgOnly

\* void blePrintString(const char* str): blePrintChar(*str++)
PrintStringCall ==
    /\ fg.pc = "ps_call"
    /\ fg.si <= Len(fg.str) + MaxPast
    /\ \E c \in CharsAt(fg.str, fg.si) :
         fg' = Call([fg EXCEPT !.ch = c, !.si = fg.si + 1], "pc_push", "ps_again")
    /\ FgOnly

\* void blePrintString(const char* str): while (!blePrintChar(*str++));
PrintStringAgain ==
    /\ fg.pc = "ps_again"
    /\ fg' = IF fg.ret THEN Goto(fg, "ps_test") ELSE Goto(fg, "ps_call")
    /\ FgOnly

(***************************************************************************)
(* rn4871.cpp: sendCommand(command)                                        *)
(***************************************************************************)
\* bleTxFlush(); -- line 86
SendCommandEntry ==
    /\ fg.pc = "sc_entry"
    /\ fg' = Call(fg, "tf_udrie", "sc_rxflush")
    /\ FgOnly

\* bleRxFlush(); -- line 87
SendCommandRxFlush ==
    /\ fg.pc = "sc_rxflush"
    /\ fg' = Call(fg, "rf_head", "sc_print")
    /\ FgOnly

\* blePrintString(command); -- line 88
SendCommandPrint ==
    /\ fg.pc = "sc_print"
    /\ fg' = Call([fg EXCEPT !.str = fg.cmd, !.si = 1], "ps_test", "sc_cr")
    /\ FgOnly

\* blePrintChar(CR); -- line 89, the value returned is not looked at
SendCommandCr ==
    /\ fg.pc = "sc_cr"
    /\ fg' = Call([fg EXCEPT !.ch = CR], "pc_push", "sc_ret")
    /\ FgOnly

SendCommandReturn ==
    /\ fg.pc = "sc_ret"
    /\ fg' = Return(fg, fg.ret)
    /\ FgOnly

(***************************************************************************)
(* rn4871.cpp: expectResponse(expectedResponse, timeout)                   *)
(***************************************************************************)
\* the same test confined to the start of the buffer (fault model)
BufferStartsWith(buf, expected) ==
    StartsWith(CStrFrom(buf, 0, DEFAULT_INPUT_BUFFER_SIZE), expected)

\* strstr(uartBuffer, expected) != NULL
BufferContains(buf, expected) ==
    Contains(CStrFrom(buf, 0, DEFAULT_INPUT_BUFFER_SIZE), expected)

\* a store without the test for room (fault model)
HasRoom_always(index) == TRUE

\* index < sizeof(uartBuffer) - 1 -- lines 66, 764, 770; the same bound is
\* bytesRead < size - start - 1 in readUntilCR -- line 538
HasRoom(index) == index < DEFAULT_INPUT_BUFFER_SIZE - 1

\* a wait that leaves the buffer as it finds it (fault model)
Memset_none(buf) == buf

\* memset(uartBuffer, 0, sizeof(uartBuffer)) -- line 55
Memset(buf) == [i \in DOMAIN buf |-> NUL]

\* bleRxFlush(); -- line 54
ExpectEntry ==
    /\ fg.pc = "er_entry"
    /\ fg' = Call(fg, "rf_head", "er_init")
    /\ FgOnly

\* memset(uartBuffer, 0, sizeof(uartBuffer)); start = millis(); -- 55..57
ExpectInit ==
    /\ fg.pc = "er_init"
    /\ uartBuffer' = Memset(uartBuffer)
    /\ seen' = <<>>
    /\ fg' = [Goto(fg, "er_loop") EXCEPT !.index = 0, !.start = millis]
    /\ UNCHANGED <<queueVars, uartVars, moduleVars, clockVars, charSigned, deviceName, operationMode>>

\* while (millis() - start < timeout) -- line 58; return false -- line 74
ExpectLoop ==
    /\ fg.pc = "er_loop"
    /\ fg' = IF ULess16(USub32(millis, fg.start), fg.timeout)
             THEN Goto(fg, "er_avail")
             ELSE Return(fg, FALSE)
    /\ FgOnly

\* if (bleAvailable()) -- line 59
ExpectAvail ==
    /\ fg.pc = "er_avail"
    /\ fg' = IF bleAvailable # 0 THEN Goto(fg, "er_read") ELSE Goto(fg, "er_loop")
    /\ FgOnly

\* char c = bleRead(); and what is done with c -- lines 60..71
ExpectRead ==
    /\ fg.pc = "er_read"
    /\ LET r == bleRead
           c == IntToChar(r.value)
       IN /\ rx' = r.rb
          /\ seen' = IF r.ret THEN Noted(seen, r.byte) ELSE seen
          /\ IF c = -1
             THEN /\ fg' = Goto(fg, "er_loop")
                  /\ UNCHANGED uartBuffer
             ELSE IF c = LF
             THEN LET buf == [uartBuffer EXCEPT ![fg.index] = NUL]
                  IN /\ uartBuffer' = buf
                     /\ fg' = Return(fg, BufferContains(buf, fg.expected))
             ELSE IF HasRoom(fg.index)
             THEN /\ uartBuffer' = [uartBuffer EXCEPT ![fg.index] = (c + 256) % 256]
                  /\ fg' = [Goto(fg, "er_loop") EXCEPT !.index = fg.index + 1]
             ELSE /\ fg' = Goto(fg, "er_loop")
                  /\ UNCHANGED uartBuffer
    /\ UNCHANGED <<queueVars, tx, udrie, wire, moduleVars, clockVars, charSigned, deviceName, operationMode>>

(***************************************************************************)
(* SpecER: one call expectResponse("AOK", T) while the module sends        *)
(* ER_Pads filler characters followed by up to MaxRx bytes of any of       *)
(* A, O, K, CR, LF, under every interleaving with the receive and timer    *)
(* interrupts.                                                             *)
(***************************************************************************)
ER_Timeouts == {4}
\* lengths of the over-long lines: the filler in front of "AOK" CR LF
ER_Pads == {124, 125}
\* the counter starts three milliseconds before it wraps
ClockStarts == {U32(65535, 65533)}
FractStarts == {0}

Filler(n) == [i \in 1..n |-> Ord["X"]]

\* what the module sends: MaxRx free bytes at any speed, or one long
\* scripted line sent slowly
ER_Streams == {<<>>} \cup {Filler(n) \o AOK_RESP \o <<CR, LF>> : n \in ER_Pads}

\* the buffer as an earlier answer AOK left it
LastAnswer ==
    [i \in 0..(DEFAULT_INPUT_BUFFER_SIZE - 1) |->
        IF i < Len(AOK_RESP) THEN AOK_RESP[i + 1] ELSE NUL]

InitER ==
    /\ QueueIdle
    /\ rx = RingBuffer_init(BLE_BUFFER_SIZE)
    /\ tx = RingBuffer_init(BLE_BUFFER_SIZE)
    /\ udrie = FALSE
    /\ wire = <<>>
    /\ rxStream \in ER_Streams
    /\ rxPos = 0
    /\ rxFree = (IF rxStream = <<>> THEN MaxRx ELSE 0)
    /\ rxGate = FALSE
    /\ rxLag = (IF rxStream = <<>> THEN BLE_BUFFER_SIZE ELSE SlowLag)
    /\ seen = <<>>
    /\ timer0_millis \in ClockStarts
    /\ timer0_fract \in FractStarts
    /\ charSigned \in BOOLEAN
    /\ deviceName = ZeroName
    /\ \E t \in ER_Timeouts :
         fg = [FgIdle EXCEPT !.pc = "er_entry", !.stack = <<"done">>,
                             !.expected = AOK_RESP, !.timeout = t]
    /\ uartBuffer = LastAnswer
    /\ operationMode = "dataMode"

NextER ==
    \/ RxIsr \/ TimerIsr
    \/ RxFlushHead \/ RxFlushTail
    \/ ExpectEntry \/ ExpectInit \/ ExpectLoop \/ ExpectAvail \/ ExpectRead

SpecER == InitER /\ [][NextER]_vars

(***************************************************************************)
(* rn4871.cpp: parseLsCmd(targetUuid, targetProperty)                      *)
(***************************************************************************)
\* the locals' initialisers and bleRxFlush(); -- lines 688..695
ParseLsEntry ==
    /\ fg.pc = "pl_entry"
    /\ fg' = Call([fg EXCEPT !.index = 0, !.timeout = DEFAULT_CMD_TIMEOUT,
                             !.endReceived = FALSE, !.gotCarriageReturn = FALSE,
                             !.foundHandle = 0],
                  "rf_head", "pl_init")
    /\ FgOnly

\* flush(); start = millis(); -- lines 696..698
ParseLsInit ==
    /\ fg.pc = "pl_init"
    /\ uartBuffer' = ZeroBuffer
    /\ seen' = <<>>
    /\ fg' = [Goto(fg, "pl_loop") EXCEPT !.start = millis]
    /\ UNCHANGED <<queueVars, uartVars, moduleVars, clockVars, charSigned, deviceName, operationMode>>

\* while (millis() - start < timeout && !endReceived) -- line 699
ParseLsLoop ==
    /\ fg.pc = "pl_loop"
    /\ fg' = IF ULess16(USub32(millis, fg.start), fg.timeout) /\ ~fg.endReceived
             THEN Goto(fg, "pl_avail")
             ELSE Goto(fg, "pl_tail")
    /\ FgOnly

\* if (bleAvailable()) -- line 700
ParseLsAvail ==
    /\ fg.pc = "pl_avail"
    /\ fg' = IF bleAvailable # 0 THEN Goto(fg, "pl_read") ELSE Goto(fg, "pl_loop")
    /\ FgOnly

\* char c = bleRead(); and what is done with c -- lines 701..772.  The
\* lines examined are recorded in fg.lines as they stand in uartBuffer.
ParseLsRead ==
    /\ fg.pc = "pl_read"
    /\ LET r == bleRead
           c == IntToChar(r.value)
           atEnd == [uartBuffer EXCEPT ![fg.index] = NUL]
           line == CStrFrom(atEnd, 0, DEFAULT_INPUT_BUFFER_SIZE)
           room == HasRoom(fg.index)
           \* the pending carriage return is stored first
           crIdx == IF fg.gotCarriageReturn /\ room THEN fg.index + 1 ELSE fg.index
           crBuf == IF fg.gotCarriageReturn /\ room
                    THEN [uartBuffer EXCEPT ![fg.index] = CR]
                    ELSE uartBuffer
           room2 == HasRoom(crIdx)
       IN /\ rx' = r.rb
          /\ seen' = IF r.ret THEN Noted(seen, r.byte) ELSE seen
          /\ IF c = -1
             THEN /\ fg' = Goto(fg, "pl_loop")
                  /\ UNCHANGED uartBuffer
             ELSE IF c = CR
             THEN /\ fg' = [Goto(fg, "pl_loop") EXCEPT !.gotCarriageReturn = TRUE]
                  /\ UNCHANGED uartBuffer
             ELSE IF c = LF /\ fg.gotCarriageReturn
             THEN /\ uartBuffer' = ZeroBuffer
                  /\ fg' = [Goto(fg, "pl_loop") EXCEPT
                              !.foundHandle =
                                  IF fg.index > 0
                                  THEN LsLine(line, fg.targetUuid, fg.targetProperty,
                                              fg.foundHandle)
                                  ELSE fg.foundHandle,
                              !.endReceived =
                                  IF fg.index > 0 /\ IsEndLine(line)
                                  THEN TRUE ELSE fg.endReceived,
                              !.lines = Append(fg.lines, line),
                              !.index = 0,
                              !.gotCarriageReturn = FALSE]
             ELSE /\ uartBuffer' = IF room2
                                   THEN [crBuf EXCEPT ![crIdx] = (c + 256) % 256]
                                   ELSE crBuf
                  /\ fg' = [Goto(fg, "pl_loop") EXCEPT
                              !.index = IF room2 THEN crIdx + 1 ELSE crIdx,
                              !.gotCarriageReturn = FALSE]
    /\ UNCHANGED <<queueVars, tx, udrie, wire, moduleVars, clockVars, charSigned, deviceName, operationMode>>

\* a parser that never looks at the unterminated line (fault model)
PartialPending_never(index, endReceived) == FALSE

\* if (index > 0 && !endReceived) -- line 775
PartialPending(index, endReceived) == index > 0 /\ ~endReceived

\* the unterminated line left in the buffer, return foundHandle
\* -- lines 775..831
ParseLsTail ==
    /\ fg.pc = "pl_tail"
    /\ LET atEnd == [uartBuffer EXCEPT ![fg.index] = NUL]
           line == CStrFrom(atEnd, 0, DEFAULT_INPUT_BUFFER_SIZE)
       IN IF PartialPending(fg.index, fg.endReceived)
          THEN /\ uartBuffer' = atEnd
               /\ fg' = ReturnVal([fg EXCEPT !.lines = Append(fg.lines, line)],
                                  LsLine(line, fg.targetUuid, fg.targetProperty,
                                         fg.foundHandle))
          ELSE /\ UNCHANGED uartBuffer
               /\ fg' = ReturnVal(fg, fg.foundHandle)
    /\ UNCHANGED <<queueVars, uartVars, moduleVars, clockVars, seen, charSigned, deviceName, operationMode>>

(***************************************************************************)
(* rn4871.cpp: findHandle(targetUuid, targetProperty)                      *)
(***************************************************************************)
\* sendCommand(LIST_SERVICES_AND_CHARS); -- line 843
FindHandleEntry ==
    /\ fg.pc = "fh_entry"
    /\ fg' = Call([fg EXCEPT !.cmd = LIST_SERVICES_AND_CHARS], "sc_entry", "fh_delay")
    /\ FgOnly

\* _delay_ms(15); parseLsCmd(targetUuid, targetProperty); -- lines
\* 844..845.  The delay is a count of processor cycles, during which the
\* handlers run; fifteen milliseconds are more than the three characters
\* of the command need to leave the queue.
FindHandleDelay ==
    /\ fg.pc = "fh_delay"
    /\ RingBuffer_is_empty(tx)
    /\ fg' = Call(fg, "pl_entry", "fh_ret")
    /\ FgOnly

\* return handle > 0 ? handle : 0; -- line 846
FindHandleReturn ==
    /\ fg.pc = "fh_ret"
    /\ fg' = ReturnVal(fg, IF fg.val > 0 THEN fg.val ELSE 0)
    /\ FgOnly

(***************************************************************************)
(* SpecLS: one call findHandle(LS_Uuid, p) for p in LS_Properties; once    *)
(* the command's carriage return has gone out the module sends the         *)
(* listing LS_Listing, under every interleaving of the foreground with the *)
(* three interrupt handlers.                                               *)
(***************************************************************************)
LS_Uuid ==
    Txt(<<"A", "D", "1", "1", "C", "F", "4", "0", "1", "6", "3", "F", "1", "1",
          "E", "5", "B", "E", "3", "E", "0", "0", "0", "2", "A", "5", "D", "5",
          "C", "5", "1", "B">>)

LS_Listing ==
    LS_Uuid \o Txt(<<",", "0", "0", "0", "8", ",", "0", "2">>) \o <<CR, LF>>
            \o Txt(<<"E", "N", "D">>) \o <<CR, LF>>

LS_Properties == {1, 2}

InitLS ==
    /\ QueueIdle
    /\ rx = RingBuffer_init(BLE_BUFFER_SIZE)
    /\ tx = RingBuffer_init(BLE_BUFFER_SIZE)
    /\ udrie = TRUE
    /\ wire = <<>>
    /\ rxStream = LS_Listing
    /\ rxPos = 0
    /\ rxFree = 0
    /\ rxGate = TRUE
    /\ rxLag = SlowLag
    /\ seen = <<>>
    /\ timer0_millis \in ClockStarts
    /\ timer0_fract \in FractStarts
    /\ charSigned \in BOOLEAN
    /\ deviceName = ZeroName
    /\ \E p \in LS_Properties :
         fg = [FgIdle EXCEPT !.pc = "fh_entry", !.stack = <<"done">>,
                             !.targetUuid = LS_Uuid, !.targetProperty = p]
    /\ uartBuffer = ZeroBuffer
    /\ operationMode = "cmdMode"

NextLS ==
    \/ RxIsr \/ TxIsr \/ TimerIsr
    \/ RxFlushHead \/ RxFlushTail
    \/ TxFlushLoad \/ TxFlushStore \/ TxFlushHead \/ TxFlushTail
    \/ PrintCharPush \/ PrintCharUdrie
    \/ PrintStringTest \/ PrintStringCall \/ PrintStringAgain
    \/ SendCommandEntry \/ SendCommandRxFlush \/ SendCommandPrint
    \/ SendCommandCr \/ SendCommandReturn
    \/ ParseLsEntry \/ ParseLsInit \/ ParseLsLoop \/ ParseLsAvail
    \/ ParseLsRead \/ ParseLsTail
    \/ FindHandleEntry \/ FindHandleDelay \/ FindHandleReturn

SpecLS == InitLS /\ [][NextLS]_vars


(***************************************************************************)
(* C1: for a power-of-two capacity N, after any sequence of push and pop   *)
(* calls RingBuffer_available() equals the pushes that returned true minus *)
(* the pops that returned true, and no push returns true when available()  *)
(* was N-1 before the call.                                                *)
(***************************************************************************)
C1_AvailableCountsAccepted ==
    IsPow2(rb.size) =>
        /\ RingBuffer_available(rb) = nPushOk - nPopOk
        /\ (opName = "push" /\ opRet) => opAvail # rb.size - 1

\* the queue was filled to N-1, a push was refused, and bytes were popped
C1_Witness ==
    /\ IsPow2(rb.size) /\ rb.size >= 4
    /\ "push" \in failed
    /\ nPopOk >= 2
    /\ opName = "push" /\ opRet
    /\ rb.head < rb.tail

(***************************************************************************)
(* C2: round trip.  On an empty queue of power-of-two capacity N, pushing  *)
(* [b0..bk], k <= N-2, and popping k+1 times succeeds every time and gives *)
(* back [b0..bk] in order, wherever head and tail sit.                     *)
(***************************************************************************)
C2_RoundTrip ==
    (rtPhase = "done" /\ IsPow2(rb.size)) => (rtOk /\ rtOut = rtIn)

\* a full-length round trip that crossed the index wraparound
C2_Witness ==
    /\ rtPhase = "done"
    /\ rb.size = 4
    /\ Len(rtIn) = 3
    /\ rtIn[1] # rtIn[2]
    /\ rb.head = 1

(***************************************************************************)
(* C3: a push on a full queue returns false and changes neither head, tail *)
(* nor any stored byte; a pop on an empty queue returns false and changes  *)
(* neither head, tail, the storage nor the caller's output byte.           *)
(***************************************************************************)
C3_FailedCallsChangeNothing ==
    [][ /\ (nOps' # nOps /\ opName' = "push" /\ RingBuffer_is_full(rb))
            => (opRet' = FALSE /\ rb' = rb)
        /\ (nOps' # nOps /\ opName' = "pop" /\ RingBuffer_is_empty(rb))
            => (opRet' = FALSE /\ rb' = rb /\ data' = data) ]_vars

\* both a refused push and a refused pop have happened on a queue that
\* holds data
C3_Witness ==
    /\ failed = {"push", "pop"}
    /\ rb.size >= 4
    /\ opName = "push" /\ ~opRet
    /\ RingBuffer_available(rb) = rb.size - 1

(***************************************************************************)
(* C4: RingBuffer_is_full() is true exactly when the next push would       *)
(* return false; RingBuffer_is_empty() is true exactly when the next pop   *)
(* would return false.                                                     *)
(***************************************************************************)
C4_FullEmptyAgreeWithPushPop ==
    /\ \A b \in RBBytes : RingBuffer_is_full(rb) <=> ~RingBuffer_push(rb, b).ret
    /\ RingBuffer_is_empty(rb) <=> ~RingBuffer_pop(rb, data).ret

\* a full queue whose head sits on the last slot (the mask matters)
C4_Witness ==
    /\ rb.size >= 4
    /\ RingBuffer_is_full(rb)
    /\ rb.head = rb.size - 1
    /\ ~RingBuffer_is_empty(rb)

(***************************************************************************)
(* Ghost views used by the claims about the engine.                        *)
(***************************************************************************)
\* the bytes of s before its first line feed (all of s if it has none)
RECURSIVE BeforeLF(_)
BeforeLF(s) ==
    IF s = <<>> \/ Head(s) = LF THEN <<>>
    ELSE <<Head(s)>> \o BeforeLF(Tail(s))

HasLF(s) == \E i \in 1..Len(s) : s[i] = LF

\* a line without the CR that precedes its line feed
StripCR(s) ==
    IF s # <<>> /\ s[Len(s)] = CR THEN SubSeq(s, 1, Len(s) - 1) ELSE s

\* the bytes waiting in a queue, oldest first (the index taken modulo the
\* size, which for these queues is a power of two)
Queued(q) ==
    [i \in 1..RingBuffer_available(q) |-> q.buffer[(q.tail + i - 1) % q.size]]

ExpectReturned == fg.pc = "done"

(***************************************************************************)
(* C5 as stated: expectResponse("AOK", T) returns true if and only if the  *)
(* first line read within T (the bytes up to the first line feed, without  *)
(* the line terminator) contains "AOK"; it returns false if that line      *)
(* lacks it or if no line arrives within T.                                *)
(***************************************************************************)
C5_Original_TrueIffFirstLineContains ==
    ExpectReturned =>
        (fg.ret <=> (HasLF(seen) /\ Contains(StripCR(BeforeLF(seen)), AOK_RESP)))

(***************************************************************************)
(* C5 amended: expectResponse("AOK", T) returns true if and only if a line *)
(* feed is read within T and the first 127 bytes read before it contain    *)
(* "AOK"; what follows the first line feed is not looked at.               *)
(***************************************************************************)
C5_TrueIffFirst127OfFirstLineContain ==
    ExpectReturned =>
        (fg.ret <=> (HasLF(seen) /\
                     Contains(Take(BeforeLF(seen), DEFAULT_INPUT_BUFFER_SIZE - 1), AOK_RESP)))

\* true was returned for a first line whose characters 125..127 are "AOK"
C5_Witness ==
    /\ ExpectReturned
    /\ fg.ret
    /\ seen = Filler(DEFAULT_INPUT_BUFFER_SIZE - 4) \o AOK_RESP \o <<CR, LF>>


(***************************************************************************)
(* rn4871.cpp: setServiceUUID(uuid), setCharactUUID(uuid, property,        *)
(* octetLen)                                                               *)
(***************************************************************************)
\* uint8_t newLen = strlen(uuid)
Uint8(n) == n % 256

\* the length test with || for && (fault model): nothing is rejected
UuidLenRejected_never(newLen) ==
    ~(newLen # PRIVATE_SERVICE_LEN \/ newLen # PUBLIC_SERVICE_LEN)

\* if (newLen != PRIVATE_SERVICE_LEN && newLen != PUBLIC_SERVICE_LEN)
UuidLenRejected(newLen) ==
    newLen # PRIVATE_SERVICE_LEN /\ newLen # PUBLIC_SERVICE_LEN

\* one digit of "%X"
HexChar(d) == IF d < 10 THEN 48 + d ELSE 65 + d - 10

\* snprintf(hex, sizeof(hex), "%02X", v) for a uint8_t v
Hex02X(v) == <<HexChar(v \div 16), HexChar(v % 16)>>

\* flush(); memcpy(uartBuffer, DEFINE_SERVICE_UUID, len);
\* memcpy(&uartBuffer[len], uuid, newLen); -- lines 401..403
ServiceCommandBuffer(uuid, newLen) ==
    LET len == Len(DEFINE_SERVICE_UUID)
    IN [i \in 0..(DEFAULT_INPUT_BUFFER_SIZE - 1) |->
           IF i < len THEN DEFINE_SERVICE_UUID[i + 1]
           ELSE IF i < len + newLen THEN uuid[i - len + 1]
           ELSE NUL]

\* bool setServiceUUID(const char *uuid) up to sendCommand(uartBuffer)
\* -- lines 393..404
SetServiceUUIDEntry ==
    /\ fg.pc = "su_entry"
    /\ LET newLen == Uint8(Len(fg.uuid))
           buf == ServiceCommandBuffer(fg.uuid, newLen)
       IN IF UuidLenRejected(newLen)
          THEN /\ fg' = Return(fg, FALSE)
               /\ UNCHANGED uartBuffer
          ELSE /\ uartBuffer' = buf
               /\ fg' = Call([fg EXCEPT !.cmd = CStrFrom(buf, 0, DEFAULT_INPUT_BUFFER_SIZE)],
                             "sc_entry", "su_expect")
    /\ UNCHANGED <<queueVars, uartVars, moduleVars, clockVars, seen, charSigned, deviceName, operationMode>>

\* return expectResponse(AOK_RESP, DEFAULT_CMD_TIMEOUT); -- line 405
SetServiceUUIDExpect ==
    /\ fg.pc = "su_expect"
    /\ fg' = [Goto(fg, "er_entry") EXCEPT !.expected = AOK_RESP,
                                         !.timeout = DEFAULT_CMD_TIMEOUT]
    /\ FgOnly

\* the clamp of octetLen -- lines 416..420
ClampOctetLen(octetLen) ==
    IF octetLen < 1 THEN 1 ELSE IF octetLen > 20 THEN 20 ELSE octetLen

\* what strcpy and the strcat calls put together -- lines 433..441
CharactCommand(uuid, property, octetLen) ==
    DEFINE_CHARACT_UUID \o uuid \o <<Ord[","]>> \o Hex02X(property)
        \o <<Ord[","]>> \o Hex02X(octetLen)

\* sizeof cmdBuffer -- lines 427..430
CharactBufferSize ==
    Len(DEFINE_CHARACT_UUID)
    + (IF PRIVATE_SERVICE_LEN > PUBLIC_SERVICE_LEN
       THEN PRIVATE_SERVICE_LEN ELSE PUBLIC_SERVICE_LEN)
    + 1 + 2 + 1 + 2 + 1

\* bool setCharactUUID(...) up to sendCommand(cmdBuffer) -- lines 415..443.
\* A command longer than cmdBuffer is written past its end by strcat, over
\* the saved registers and return addresses above it on the stack: what
\* the call does from there on is not determined by the source, it may
\* never return or return either value.
SetCharactUUIDEntry ==
    /\ fg.pc = "cu_entry"
    /\ LET newLen == Uint8(Len(fg.uuid))
           octetLen == ClampOctetLen(fg.octetLen)
           cmd == CharactCommand(fg.uuid, fg.property, octetLen)
       IN IF UuidLenRejected(newLen)
          THEN fg' = Return(fg, FALSE)
          ELSE IF Len(cmd) + 1 <= CharactBufferSize
          THEN fg' = Call([fg EXCEPT !.cmd = cmd, !.octetLen = octetLen],
                          "sc_entry", "cu_expect")
          ELSE \/ fg' = Goto(fg, "undefined")
               \/ \E r \in BOOLEAN : fg' = Return(fg, r)
    /\ FgOnly

\* return expectResponse(AOK_RESP, 500); -- line 444
SetCharactUUIDExpect ==
    /\ fg.pc = "cu_expect"
    /\ fg' = [Goto(fg, "er_entry") EXCEPT !.expected = AOK_RESP, !.timeout = 500]
    /\ FgOnly

(***************************************************************************)
(* SpecUUID: one call of setServiceUUID or setCharactUUID with a UUID of   *)
(* one of the lengths UuidLens, made while the transport and the scratch   *)
(* buffer hold stale bytes; the module answers a command with AOK CR LF.   *)
(***************************************************************************)
UuidLens == {3, 4, 5, 32, 260}
UuidOf(n) == [i \in 1..n |-> Ord["A"]]
OctetLens == {0, 21}

\* a queue of the transport holding one stale byte
StaleQueue ==
    [RingBuffer_init(BLE_BUFFER_SIZE) EXCEPT !.head = 1, !.buffer[0] = Ord["X"]]

StaleBuffer ==
    [i \in 0..(DEFAULT_INPUT_BUFFER_SIZE - 1) |->
        IF i < Len(AOK_RESP) THEN AOK_RESP[i + 1] ELSE NUL]

InitUUID ==
    /\ QueueIdle
    /\ rx = StaleQueue
    /\ tx = StaleQueue
    /\ uartBuffer = StaleBuffer
    /\ udrie = TRUE
    /\ wire = <<>>
    /\ rxStream = AOK_RESP \o <<CR, LF>>
    /\ rxPos = 0
    /\ rxFree = 0
    /\ rxGate = TRUE
    /\ rxLag = SlowLag
    /\ seen = <<>>
    /\ timer0_millis \in ClockStarts
    /\ timer0_fract \in FractStarts
    /\ charSigned = TRUE
    /\ deviceName = ZeroName
    /\ \E n \in UuidLens :
         \/ fg = [FgIdle EXCEPT !.pc = "su_entry", !.stack = <<"done">>,
                                !.ret = TRUE, !.uuid = UuidOf(n)]
         \/ \E o \in OctetLens :
              fg = [FgIdle EXCEPT !.pc = "cu_entry", !.stack = <<"done">>,
                                  !.ret = TRUE, !.uuid = UuidOf(n),
                                  !.property = 2, !.octetLen = o]
    /\ operationMode = "cmdMode"

NextUUID ==
    \/ RxIsr \/ TxIsr \/ TimerIsr
    \/ RxFlushHead \/ RxFlushTail
    \/ TxFlushLoad \/ TxFlushStore \/ TxFlushHead \/ TxFlushTail
    \/ PrintCharPush \/ PrintCharUdrie
    \/ PrintStringTest \/ PrintStringCall \/ PrintStringAgain
    \/ SendCommandEntry \/ SendCommandRxFlush \/ SendCommandPrint
    \/ SendCommandCr \/ SendCommandReturn
    \/ ExpectEntry \/ ExpectInit \/ ExpectLoop \/ ExpectAvail \/ ExpectRead
    \/ SetServiceUUIDEntry \/ SetServiceUUIDExpect
    \/ SetCharactUUIDEntry \/ SetCharactUUIDExpect

SpecUUID == InitUUID /\ [][NextUUID]_vars

(***************************************************************************)
(* The session: the calls of reboot, enterCommandMode, enterDataMode and   *)
(* swInit seen from the application.  Each call into the transport is one  *)
(* step here: the handlers have run to completion when it ends, so the     *)
(* command has left the TX queue and the module's reply, one of a few      *)
(* texts, is what the wait has read.                                       *)
(***************************************************************************)
RECURSIVE PushAll(_, _)
PushAll(q, s) ==
    IF s = <<>> THEN q ELSE PushAll(RingBuffer_push(q, Head(s)).rb, Tail(s))

RECURSIVE PopN(_, _)
PopN(q, n) ==
    IF n = 0 THEN q ELSE PopN(RingBuffer_pop(q, 0).rb, n - 1)

\* the queue emptied by reading, as cleanInputBuffer does
Drained(q) == PopN(q, RingBuffer_available(q))

\* bleTxFlush / bleRxFlush
Flushed(q) == [q EXCEPT !.head = 0, !.tail = 0]

\* a setOperationMode that stores cmdMode whatever it is given (fault model)
setOperationMode_cmd(newMode) == "cmdMode"

\* the prompt test satisfied by any text at all (fault model)
PromptFound_any(buf) == buf[0] # NUL

\* a setOperationMode that stores dataMode whatever it is given (fault model)
setOperationMode_data(newMode) == "dataMode"

\* a setOperationMode that stores nothing (fault model)
setOperationMode_dropped(newMode) == operationMode

\* void setOperationMode(operationMode_t newMode): the new operationMode
setOperationMode(newMode) == newMode

\* the loop of expectResponse over the bytes s that arrive before the
\* deadline: the value returned, the scratch buffer, the bytes read
RECURSIVE ExpectScan(_, _, _, _, _)
ExpectScan(buf, index, s, nRead, expected) ==
    IF s = <<>> THEN [ret |-> FALSE, buf |-> buf, read |-> nRead]
    ELSE LET c == IntToChar(CharValue(Head(s)))
         IN IF c = -1
            THEN ExpectScan(buf, index, Tail(s), nRead + 1, expected)
            ELSE IF c = LF
            THEN [ret |-> BufferContains([buf EXCEPT ![index] = NUL], expected),
                  buf |-> [buf EXCEPT ![index] = NUL],
                  read |-> nRead + 1]
            ELSE IF index < DEFAULT_INPUT_BUFFER_SIZE - 1
            THEN ExpectScan([buf EXCEPT ![index] = (c + 256) % 256], index + 1,
                            Tail(s), nRead + 1, expected)
            ELSE ExpectScan(buf, index, Tail(s), nRead + 1, expected)

\* what the module may answer to R,1 CR: nothing (it is in data mode),
\* the acknowledgement, an error
RebootReplies ==
    {<<>>,
     REBOOTING_RESP \o <<CR, LF>>,
     Txt(<<"E", "r", "r">>) \o <<CR, LF>>}

\* what has been received when the poll of enterCommandMode ends:
\* nothing, the prompt, the prompt of a module that echoes, half a prompt
PromptReplies ==
    {<<>>,
     Txt(<<"C", "M", "D", ">", " ">>),
     Txt(<<"$", "$", "$">>) \o PROMPT_CR \o <<LF>>,
     Txt(<<"C", "M", "D">>)}

\* the end of a call made by the application or by swInit
Returned(f, name, value) ==
    [Return(f, value) EXCEPT !.log = Append(f.log, [fn |-> name, ret |-> value])]

SessionOnly == UNCHANGED <<queueVars, uartVars, moduleVars, clockVars, seen, charSigned, deviceName, uartBuffer, operationMode>>

\* the application calls one of the four functions
Invoked(f, name, entry) ==
    Call([f EXCEPT !.top = name, !.calls = f.calls + 1, !.log = <<>>], entry, "idle")

CallReboot ==
    /\ fg.pc = "idle" /\ fg.calls < MaxCalls
    /\ fg' = Invoked(fg, "reboot", "rb_entry")
    /\ SessionOnly

CallEnterCommandMode ==
    /\ fg.pc = "idle" /\ fg.calls < MaxCalls
    /\ fg' = Invoked(fg, "enterCommandMode", "ec_entry")
    /\ SessionOnly

CallEnterDataMode ==
    /\ fg.pc = "idle" /\ fg.calls < MaxCalls
    /\ fg' = Invoked(fg, "enterDataMode", "ed_entry")
    /\ SessionOnly

CallSwInit ==
    /\ fg.pc = "idle" /\ fg.calls < MaxCalls
    /\ fg' = Invoked(fg, "swInit", "sw_entry")
    /\ SessionOnly

\* sendCommand(command): both queues cleared, the command and CR sent
CommandSent(command) ==
    /\ tx' = IF Len(command) + 1 < BLE_BUFFER_SIZE
             THEN [tx EXCEPT !.head = Len(command) + 1, !.tail = Len(command) + 1,
                             !.buffer = [i \in DOMAIN tx.buffer |->
                                            IF i < Len(command) THEN command[i + 1]
                                            ELSE IF i = Len(command) THEN CR
                                            ELSE tx.buffer[i]]]
             ELSE PopN(PushAll(Flushed(tx), command \o <<CR>>), Len(command) + 1)
    /\ udrie' = FALSE
    /\ wire' = wire \o command \o <<CR>>
    /\ rx' = Flushed(rx)

\* bool reboot(void): sendCommand(REBOOT); -- line 115
RebootSend ==
    /\ fg.pc = "rb_entry"
    /\ CommandSent(REBOOT)
    /\ fg' = Goto(fg, "rb_expect")
    /\ UNCHANGED <<queueVars, moduleVars, clockVars, seen, charSigned, deviceName, uartBuffer, operationMode>>

\* bool reboot(void): expectResponse(REBOOTING_RESP, RESET_CMD_TIMEOUT),
\* the delay, the return -- lines 116..120
RebootExpect ==
    /\ fg.pc = "rb_expect"
    /\ \E reply \in RebootReplies :
         LET r == ExpectScan(ZeroBuffer, 0, reply, 0, REBOOTING_RESP)
         IN /\ rx' = PopN(PushAll(Flushed(rx), reply), r.read)
            /\ seen' = SubSeq(reply, 1, r.read)
            /\ uartBuffer' = r.buf
            /\ fg' = Returned(fg, "reboot", r.ret)
    /\ UNCHANGED <<queueVars, tx, udrie, wire, moduleVars, clockVars, charSigned, deviceName, operationMode>>

\* bool enterCommandMode(void): the delay, flush(), bleTxFlush(),
\* cleanInputBuffer(), blePrintString(ENTER_CMD) -- lines 211..215
EnterCommandModeSend ==
    /\ fg.pc = "ec_entry"
    /\ uartBuffer' = ZeroBuffer
    /\ tx' = PopN(PushAll(Flushed(tx), ENTER_CMD), Len(ENTER_CMD))
    /\ udrie' = FALSE
    /\ rx' = Drained(rx)
    /\ wire' = wire \o ENTER_CMD
    /\ fg' = Goto(fg, "ec_poll")
    /\ UNCHANGED <<queueVars, moduleVars, clockVars, seen, charSigned, deviceName, operationMode>>

\* strstr(uartBuffer, PROMPT) != NULL || strstr(uartBuffer, PROMPT_CR) != NULL
PromptFound(buf) == BufferContains(buf, PROMPT) \/ BufferContains(buf, PROMPT_CR)

\* bool enterCommandMode(void): the poll, bleReadBytes(uartBuffer,
\* bleAvailable()), the test for the prompt -- lines 217..225
EnterCommandModePoll ==
    /\ fg.pc = "ec_poll"
    /\ \E reply \in PromptReplies :
         LET buf == [i \in 0..(DEFAULT_INPUT_BUFFER_SIZE - 1) |->
                        IF i < Len(reply) THEN reply[i + 1] ELSE uartBuffer[i]]
         IN /\ rx' = PopN(PushAll(rx, reply), Len(reply))
            /\ seen' = reply
            /\ uartBuffer' = buf
            /\ operationMode' = IF PromptFound(buf)
                                THEN setOperationMode("cmdMode")
                                ELSE operationMode
            /\ fg' = Returned(fg, "enterCommandMode", PromptFound(buf))
    /\ UNCHANGED <<queueVars, tx, udrie, wire, moduleVars, clockVars, charSigned, deviceName>>

\* void enterDataMode(void) -- lines 198..201
EnterDataMode ==
    /\ fg.pc = "ed_entry"
    /\ CommandSent(EXIT_CMD)
    /\ operationMode' = setOperationMode("dataMode")
    /\ fg' = Returned(fg, "enterDataMode", fg.ret)
    /\ UNCHANGED <<queueVars, moduleVars, clockVars, seen, charSigned, deviceName, uartBuffer>>

\* bool swInit(void): initOk = false; reboot() -- lines 154..155
SwInitEntry ==
    /\ fg.pc = "sw_entry"
    /\ fg' = Call([fg EXCEPT !.initOk = FALSE], "rb_entry", "sw_first")
    /\ SessionOnly

\* a retry that does not depend on enterCommandMode (fault model)
SwInitRetries_always(entered) == TRUE

\* else if (enterCommandMode()): whether the second reboot is attempted
SwInitRetries(entered) == entered

\* bool swInit(void): after the first reboot -- lines 155..158
SwInitFirst ==
    /\ fg.pc = "sw_first"
    /\ IF fg.ret
       THEN /\ operationMode' = setOperationMode("dataMode")
            /\ fg' = Goto([fg EXCEPT !.initOk = TRUE], "sw_ret")
       ELSE /\ fg' = Call(fg, "ec_entry", "sw_entered")
            /\ UNCHANGED operationMode
    /\ UNCHANGED <<queueVars, uartVars, moduleVars, clockVars, seen, charSigned, deviceName, uartBuffer>>

\* bool swInit(void): after enterCommandMode -- lines 158..159
SwInitEntered ==
    /\ fg.pc = "sw_entered"
    /\ fg' = IF SwInitRetries(fg.ret)
             THEN Call(fg, "rb_entry", "sw_second")
             ELSE Goto(fg, "sw_ret")
    /\ SessionOnly

\* bool swInit(void): after the second reboot -- lines 159..162
SwInitSecond ==
    /\ fg.pc = "sw_second"
    /\ IF fg.ret
       THEN /\ operationMode' = setOperationMode("dataMode")
            /\ fg' = Goto([fg EXCEPT !.initOk = TRUE], "sw_ret")
       ELSE /\ fg' = Goto(fg, "sw_ret")
            /\ UNCHANGED operationMode
    /\ UNCHANGED <<queueVars, uartVars, moduleVars, clockVars, seen, charSigned, deviceName, uartBuffer>>

\* return initOk; -- line 164
SwInitReturn ==
    /\ fg.pc = "sw_ret"
    /\ fg' = Returned(fg, "swInit", fg.initOk)
    /\ SessionOnly

(***************************************************************************)
(* SpecMode: a fresh session in which the application makes up to MaxCalls *)
(* calls, in any order, with any of the replies above.                     *)
(***************************************************************************)
FreshSession ==
    /\ QueueIdle
    /\ rx = RingBuffer_init(BLE_BUFFER_SIZE)
    /\ tx = RingBuffer_init(BLE_BUFFER_SIZE)
    /\ udrie = TRUE
    /\ wire = <<>>
    /\ rxStream = <<>> /\ rxPos = 0 /\ rxFree = 0 /\ rxGate = FALSE
    /\ rxLag = BLE_BUFFER_SIZE
    /\ seen = <<>>
    /\ timer0_millis = U32(0, 0) /\ timer0_fract = 0
    /\ charSigned \in BOOLEAN
    /\ deviceName = ZeroName
    /\ fg = [FgIdle EXCEPT !.pc = "idle"]
    /\ uartBuffer = ZeroBuffer
    /\ operationMode = "dataMode"

NextMode ==
    \/ CallReboot \/ CallEnterCommandMode \/ CallEnterDataMode \/ CallSwInit
    \/ RebootSend \/ RebootExpect
    \/ EnterCommandModeSend \/ EnterCommandModePoll
    \/ EnterDataMode
    \/ SwInitEntry \/ SwInitFirst \/ SwInitEntered \/ SwInitSecond \/ SwInitReturn

SpecMode == FreshSession /\ [][NextMode]_vars

(***************************************************************************)
(* C6: when, in reply to the listing command issued by findHandle, the     *)
(* module streams the line <UUID>,0008,02 CR LF and then END CR LF, and    *)
(* those bytes arrive after the command is sent, findHandle(UUID, 0x02)    *)
(* returns 0x0008 and findHandle(UUID, 0x01) returns 0.                    *)
(***************************************************************************)
FindReturned == fg.pc = "done"

LS_Expected == IF fg.targetProperty = 2 THEN 8 ELSE 0

\* the claim, for a listing that has arrived in full before the parser's
\* deadline
C6_Original_ReturnsListedHandle ==
    (FindReturned /\ rxPos = Len(rxStream) /\ DeadlineOpen) => fg.val = LS_Expected

\* what the code does guarantee: the handle is returned when the parser
\* has read the whole listing, that is when no byte of it reached the RX
\* queue before parseLsCmd cleared that queue
C6_ReturnsHandleWhenWholeListingRead ==
    (FindReturned /\ seen = LS_Listing) => fg.val = LS_Expected

C6_Witness ==
    /\ FindReturned
    /\ seen = LS_Listing
    /\ fg.targetProperty = 2
    /\ fg.val = 8


(***************************************************************************)
(* C7: setServiceUUID and setCharactUUID called with a UUID string whose   *)
(* length is neither the short nor the long accepted length return false   *)
(* immediately and send nothing: the TX queue, the RX queue, the scratch   *)
(* response buffer and the transmit-interrupt enable are left as they      *)
(* were before the call.                                                   *)
(***************************************************************************)
\* the foreground takes the first step of a UUID setter
SetterStep == fg.pc \in {"su_entry", "cu_entry"} /\ fg'.pc # fg.pc

ReturnsFalseTouchingNothing ==
    /\ fg'.pc = "done"
    /\ fg'.ret = FALSE
    /\ UNCHANGED <<tx, rx, uartBuffer, udrie, wire>>

\* the claim: every length other than 4 and 32
C7_Original_WrongLengthRejected ==
    [][(SetterStep /\ Len(fg.uuid) \notin {PUBLIC_SERVICE_LEN, PRIVATE_SERVICE_LEN})
          => ReturnsFalseTouchingNothing]_vars

\* what the code does guarantee: every length that is neither 4 nor 32
\* modulo 256
C7_WrongLengthMod256Rejected ==
    [][(SetterStep /\ (Len(fg.uuid) % 256) \notin {PUBLIC_SERVICE_LEN, PRIVATE_SERVICE_LEN})
          => ReturnsFalseTouchingNothing]_vars

\* a setter has returned false for a UUID of five characters, the stale
\* bytes still in place
C7_Witness ==
    /\ fg.pc = "done"
    /\ Len(fg.uuid) = 5
    /\ fg.ret = FALSE
    /\ tx = StaleQueue /\ rx = StaleQueue
    /\ uartBuffer = StaleBuffer
    /\ udrie
    /\ wire = <<>>


(***************************************************************************)
(* C8: a fresh session starts in DataMode, and after every call to         *)
(* enterCommandMode that returns true the mode is CommandMode.             *)
(***************************************************************************)
EnterCommandModeReturns == fg.pc = "ec_poll" /\ fg'.pc # "ec_poll"

C8_FreshDataModeThenCommandMode ==
    /\ [](fg.calls = 0 => operationMode = "dataMode")
    /\ [][(EnterCommandModeReturns /\ fg'.ret) => operationMode' = "cmdMode"]_vars

\* the application's enterCommandMode has returned true
C8_Witness ==
    /\ fg.pc = "idle"
    /\ fg.top = "enterCommandMode"
    /\ fg.ret
    /\ fg.log = <<[fn |-> "enterCommandMode", ret |-> TRUE]>>
    /\ operationMode = "cmdMode"

(***************************************************************************)
(* C9: after every call to reboot() that returns true the session mode is  *)
(* DataMode, whatever the mode was before the call (in particular when     *)
(* reboot is called directly after a successful enterCommandMode).         *)
(***************************************************************************)
\* the application's own call of reboot returns
RebootReturns ==
    /\ fg.top = "reboot"
    /\ fg.pc = "rb_expect"
    /\ fg'.pc # "rb_expect"

C9_Original_DataModeAfterReboot ==
    [][(RebootReturns /\ fg'.ret) => operationMode' = "dataMode"]_vars

\* what the code does guarantee: reboot leaves the mode as it was
C9_RebootLeavesModeAsItWas ==
    [][RebootReturns => UNCHANGED operationMode]_vars

\* the application's reboot has returned true with the mode still cmdMode
C9_Witness ==
    /\ fg.pc = "idle"
    /\ fg.top = "reboot"
    /\ fg.ret
    /\ operationMode = "cmdMode"

(***************************************************************************)
(* C10: swInit calls reboot at most twice and enterCommandMode at most     *)
(* once per invocation; the second reboot is attempted only when the first *)
(* reboot failed and enterCommandMode then succeeded; swInit returns true  *)
(* if and only if one of its reboot attempts returned true.                *)
(***************************************************************************)
\* calls of a function made so far in this invocation: those that have
\* returned and the one that is running
CallsOf(name, labels) ==
    Cardinality({i \in 1..Len(fg.log) : fg.log[i].fn = name})
    + (IF fg.pc \in labels THEN 1 ELSE 0)

RebootCalls == CallsOf("reboot", {"rb_entry", "rb_expect"})
EnterCommandModeCalls == CallsOf("enterCommandMode", {"ec_entry", "ec_poll"})

C10_SwInitRetriesOnce ==
    fg.top = "swInit" =>
        /\ RebootCalls <= 2
        /\ EnterCommandModeCalls <= 1
        /\ RebootCalls = 2 =>
               /\ Len(fg.log) >= 2
               /\ fg.log[1] = [fn |-> "reboot", ret |-> FALSE]
               /\ fg.log[2] = [fn |-> "enterCommandMode", ret |-> TRUE]
        /\ fg.pc = "idle" =>
               (fg.ret <=> \E i \in 1..Len(fg.log) :
                              fg.log[i] = [fn |-> "reboot", ret |-> TRUE])

\* swInit has returned true after its second reboot
C10_Witness ==
    /\ fg.top = "swInit"
    /\ fg.pc = "idle"
    /\ fg.ret
    /\ fg.log = <<[fn |-> "reboot", ret |-> FALSE],
                  [fn |-> "enterCommandMode", ret |-> TRUE],
                  [fn |-> "reboot", ret |-> TRUE],
                  [fn |-> "swInit", ret |-> TRUE]>>
    /\ operationMode = "dataMode"


(***************************************************************************)
(* C11: whenever swInit returns true the session mode is DataMode, on both *)
(* success paths (direct reboot, and enterCommandMode followed by reboot). *)
(***************************************************************************)
SwInitReturned == fg.top = "swInit" /\ fg.pc = "idle"

C11_DataModeAfterSwInit ==
    (SwInitReturned /\ fg.ret) => operationMode = "dataMode"

\* swInit, called in command mode, has returned true after its first reboot
C11_Witness ==
    /\ SwInitReturned
    /\ fg.calls = 2
    /\ fg.ret
    /\ fg.log = <<[fn |-> "reboot", ret |-> TRUE], [fn |-> "swInit", ret |-> TRUE]>>
    /\ Contains(wire, ENTER_CMD)
    /\ operationMode = "dataMode"

(***************************************************************************)
(* C12: enterCommandMode returns true and sets the mode to CommandMode     *)
(* only if the text collected after sending the escape sequence contains   *)
(* the prompt marker (with or without trailing CR); in every other case it *)
(* returns false and the mode is exactly what it was before the call.      *)
(***************************************************************************)
\* any call of enterCommandMode returns, made by the application or by swInit
EnterCommandModeEnds == fg.pc = "ec_poll" /\ fg'.pc # "ec_poll"

C12_CommandModeOnlyOnPrompt ==
    [][EnterCommandModeEnds =>
          IF fg'.ret
          THEN Contains(seen', PROMPT) /\ operationMode' = "cmdMode"
          ELSE UNCHANGED operationMode]_vars

\* enterCommandMode, called in command mode, has collected half a prompt
\* and returned false, the mode still cmdMode
C12_Witness ==
    /\ fg.pc = "idle"
    /\ fg.top = "enterCommandMode"
    /\ ~fg.ret
    /\ seen = Txt(<<"C", "M", "D">>)
    /\ operationMode = "cmdMode"


(***************************************************************************)
(* SpecSC: one call of sendCommand(text) with a byte left over in each     *)
(* queue, the transmit handler running at any speed and one byte arriving  *)
(* at any moment.                                                          *)
(***************************************************************************)
\* the command texts: distinct characters, none of them CR, LF or the stale
\* byte, so that a character skipped, repeated or out of place shows
TextOf(n) == [i \in 1..n |-> 100 + i]

SC_Lens == {2, BLE_BUFFER_SIZE - 2, BLE_BUFFER_SIZE - 1, BLE_BUFFER_SIZE}

InitSC ==
    /\ QueueIdle
    /\ rx = StaleQueue
    /\ tx = StaleQueue
    /\ uartBuffer = ZeroBuffer
    /\ udrie = TRUE
    /\ wire = <<>>
    /\ rxStream = <<Ord["O"]>>
    /\ rxPos = 0
    /\ rxFree = 0
    /\ rxGate = FALSE
    /\ rxLag = BLE_BUFFER_SIZE
    /\ seen = <<>>
    /\ timer0_millis = U32(0, 0)
    /\ timer0_fract = 0
    /\ charSigned = TRUE
    /\ deviceName = ZeroName
    /\ \E n \in SC_Lens :
         fg = [FgIdle EXCEPT !.pc = "sc_entry", !.stack = <<"idle">>,
                             !.cmd = TextOf(n), !.top = "sendCommand"]
    /\ operationMode = "cmdMode"

NextSC ==
    \/ RxIsr \/ TxIsr
    \/ SendCommandEntry \/ SendCommandRxFlush \/ SendCommandPrint
    \/ SendCommandCr \/ SendCommandReturn
    \/ TxFlushLoad \/ TxFlushStore \/ TxFlushHead \/ TxFlushTail
    \/ RxFlushHead \/ RxFlushTail
    \/ PrintStringTest \/ PrintStringCall \/ PrintStringAgain
    \/ PrintCharPush \/ PrintCharUdrie

SpecSC == InitSC /\ [][NextSC]_vars

\* the bytes the TX queue has taken since it was flushed: those sent and
\* those waiting, without the byte left over from before the call
Stale(b) == b = Ord["X"]
Fresh(b) == ~Stale(b)
Enqueued == SelectSeq(wire \o Queued(tx), Fresh)

PrintStringReturned == fg.pc = "sc_cr"
SendCommandReturned == fg.pc = "idle" /\ fg.top = "sendCommand"

(***************************************************************************)
(* C14: blePrintString(s) retries the same character until it is taken,    *)
(* so that when it returns the TX queue has taken every character of s     *)
(* exactly once, in order, and nothing else, however the transmit handler  *)
(* interleaves and also when the queue is full as a character is offered.  *)
(* The loop is while (!blePrintChar( *str++ )): a refused character is     *)
(* passed over and the next one offered, so the statement as made fails.   *)
(***************************************************************************)
C14_Original_EveryCharacterOnceInOrder ==
    PrintStringReturned => Enqueued = fg.cmd

\* C14, for strings that fit the emptied queue (no character is refused):
\* when blePrintString returns, the queue has taken the characters of the
\* string once each, in order, and nothing else.
C14_EveryCharacterWhenNoneRefused ==
    (PrintStringReturned /\ Len(fg.cmd) < BLE_BUFFER_SIZE) => Enqueued = fg.cmd

\* the last character of a 64-character string was refused, the terminator
\* was queued in its place, and blePrintString returned on the byte after it
C14_Witness ==
    /\ PrintStringReturned
    /\ Len(fg.cmd) = BLE_BUFFER_SIZE
    /\ Enqueued = SubSeq(fg.cmd, 1, BLE_BUFFER_SIZE - 1) \o <<NUL>>

(***************************************************************************)
(* C15: sendCommand(text) empties the TX queue, then the RX queue, then    *)
(* queues exactly the characters of text and one carriage return, no line  *)
(* feed; the carriage return is queued for every length of text and every  *)
(* interleaving with the transmit handler.  The value of blePrintChar(CR)  *)
(* is not looked at, so the statement as made fails on a full queue.       *)
(***************************************************************************)
C15_Original_TextThenCarriageReturn ==
    SendCommandReturned => Enqueued = fg.cmd \o <<CR>>

\* C15, for a text that leaves room for the carriage return: the queues
\* are emptied of what they held, TX first, and on return the TX queue has
\* taken the text and one carriage return, no line feed.
C15_TextThenCarriageReturnWhenRoom ==
    /\ fg.pc = "sc_rxflush" => Queued(tx) = <<>> /\ ~udrie
    /\ fg.pc = "sc_print" =>
          /\ Queued(tx) = <<>>
          /\ \A i \in 1..Len(Queued(rx)) : Fresh(Queued(rx)[i])
    /\ (SendCommandReturned /\ Len(fg.cmd) <= BLE_BUFFER_SIZE - 2) =>
          /\ Enqueued = fg.cmd \o <<CR>>
          /\ \A i \in 1..Len(Enqueued) : Enqueued[i] # LF

\* sendCommand returned with a 63-character text queued and no carriage
\* return after it
C15_Witness ==
    /\ SendCommandReturned
    /\ Len(fg.cmd) = BLE_BUFFER_SIZE - 1
    /\ Enqueued = fg.cmd

(***************************************************************************)
(* bleSerial.cpp and ringBuffer.cpp: bleRead, bleAvailable and             *)
(* blePrintChar taken apart into the loads and stores of RingBuffer_pop    *)
(* and RingBuffer_push and of UCSR0B |= (1 << UDRIE0), a handler being     *)
(* able to run between any two of them.                                    *)
(***************************************************************************)
\* uint8_t next_head = (rb->head + 1) & (rb->size - 1)
NextHead(q) == BitAnd(q.head + 1, q.size - 1)

\* a full test that never refuses (fault model)
PushRefused_never(q) == FALSE

\* if (next_head == rb->tail) return false
PushRefused(q) == NextHead(q) = q.tail

\* the application: the call it makes is recorded with the number of bytes
\* that had arrived when it was made
Applied(f, name, entry) ==
    Call([f EXCEPT !.top = name, !.calls = f.calls + 1, !.arrived = rxPos],
         entry, "idle")

Observed(f, value) ==
    [Return(f, value) EXCEPT !.log = Append(f.log, [fn |-> f.top, ret |-> value])]

CallRead ==
    /\ fg.pc = "idle" /\ fg.calls < MaxIo
    /\ fg' = Applied(fg, "bleRead", "rd_check")
    /\ FgOnly

CallAvailable ==
    /\ fg.pc = "idle" /\ fg.calls < MaxIo
    /\ fg' = Applied(fg, "bleAvailable", "av_load")
    /\ FgOnly

\* the byte written tells the calls apart
CallPrintChar ==
    /\ fg.pc = "idle" /\ fg.calls < MaxIo
    /\ fg' = Applied([fg EXCEPT !.ch = 200 + fg.calls], "blePrintChar", "wp_check")
    /\ FgOnly

\* RingBuffer_pop: if (rb->head == rb->tail) return false; bleRead then
\* returns -1
ReadCheck ==
    /\ fg.pc = "rd_check"
    /\ fg' = IF rx.head = rx.tail
             THEN [Observed(fg, FALSE) EXCEPT !.val = -1]
             ELSE Goto(fg, "rd_load")
    /\ FgOnly

\* RingBuffer_pop: *data = (char)rb->buffer[rb->tail]
ReadLoad ==
    /\ fg.pc = "rd_load"
    /\ fg' = Goto([fg EXCEPT !.ch = rx.buffer[rx.tail]], "rd_tail")
    /\ FgOnly

\* RingBuffer_pop: rb->tail = (rb->tail + 1) & (rb->size - 1); return true;
\* bleRead returns the byte
ReadTail ==
    /\ fg.pc = "rd_tail"
    /\ rx' = [rx EXCEPT !.tail = BitAnd(rx.tail + 1, rx.size - 1)]
    /\ seen' = Append(seen, fg.ch)
    /\ fg' = [Observed(fg, TRUE) EXCEPT !.val = CharValue(fg.ch)]
    /\ UNCHANGED <<queueVars, tx, udrie, wire, moduleVars, clockVars, charSigned, deviceName, uartBuffer, operationMode>>

\* int bleAvailable(void): (rb->head - rb->tail) & (rb->size - 1)
AvailableLoad ==
    /\ fg.pc = "av_load"
    /\ fg' = [Observed(fg, TRUE) EXCEPT !.val = bleAvailable]
    /\ FgOnly

\* RingBuffer_push: next_head and the full test
PushCheck ==
    /\ fg.pc = "wp_check"
    /\ fg' = IF PushRefused(tx)
             THEN Observed(fg, FALSE)
             ELSE Goto([fg EXCEPT !.index = NextHead(tx)], "wp_data")
    /\ FgOnly

\* RingBuffer_push: rb->buffer[rb->head] = (uint8_t)data
PushData ==
    /\ fg.pc = "wp_data"
    /\ tx' = [tx EXCEPT !.buffer[tx.head] = fg.ch]
    /\ fg' = Goto(fg, "wp_head")
    /\ UNCHANGED <<queueVars, rx, udrie, wire, moduleVars, clockVars, seen, charSigned, deviceName, uartBuffer, operationMode>>

\* RingBuffer_push: rb->head = next_head; return true
PushHead ==
    /\ fg.pc = "wp_head"
    /\ tx' = [tx EXCEPT !.head = fg.index]
    /\ fg' = Goto(fg, "wp_load")
    /\ UNCHANGED <<queueVars, rx, udrie, wire, moduleVars, clockVars, seen, charSigned, deviceName, uartBuffer, operationMode>>

\* blePrintChar: UCSR0B |= (1 << UDRIE0), the load of the register
PrintCharLoad ==
    /\ fg.pc = "wp_load"
    /\ fg' = Goto(fg, "wp_store")
    /\ FgOnly

\* blePrintChar: UCSR0B |= (1 << UDRIE0), the store; return true
PrintCharStore ==
    /\ fg.pc = "wp_store"
    /\ udrie' = SetUdrie(udrie)
    /\ fg' = Observed(fg, TRUE)
    /\ UNCHANGED <<queueVars, rx, tx, wire, moduleVars, clockVars, seen, charSigned, deviceName, uartBuffer, operationMode>>

(***************************************************************************)
(* SpecIO: the application reads, asks for the count and writes single     *)
(* bytes while both handlers run.  It starts either with 66 bytes          *)
(* received, 4 of them read and 62 queued, and more arriving, or with 66   *)
(* bytes written, 4 of them sent and 62 queued.                            *)
(***************************************************************************)
IoRead == 4
IoQueued == BLE_BUFFER_SIZE - 2

Counted(a, b) == [i \in 1..(b - a + 1) |-> a + i - 1]

\* the queue after it has taken the bytes 1 .. taken one by one and given
\* the first given of them, for taken below twice its size
QueueAfter(taken, given) ==
    [size   |-> BLE_BUFFER_SIZE,
     head   |-> taken % BLE_BUFFER_SIZE,
     tail   |-> given % BLE_BUFFER_SIZE,
     buffer |-> [i \in 0..(BLE_BUFFER_SIZE - 1) |->
                    IF i + 1 + BLE_BUFFER_SIZE <= taken THEN i + 1 + BLE_BUFFER_SIZE
                    ELSE IF i + 1 <= taken THEN i + 1
                    ELSE 0]]

NearlyFull == QueueAfter(IoRead + IoQueued, IoRead)

InitIO ==
    /\ QueueIdle
    /\ uartBuffer = ZeroBuffer
    /\ udrie = TRUE
    /\ rxFree = 0
    /\ rxGate = FALSE
    /\ rxLag = BLE_BUFFER_SIZE
    /\ timer0_millis = U32(0, 0)
    /\ timer0_fract = 0
    /\ charSigned \in BOOLEAN
    /\ deviceName = ZeroName
    /\ fg = [FgIdle EXCEPT !.pc = "idle"]
    /\ operationMode = "dataMode"
    /\ \/ /\ rx = NearlyFull
          /\ seen = Counted(1, IoRead)
          /\ rxStream = Counted(1, IoRead + IoQueued + MaxArrivals)
          /\ rxPos = IoRead + IoQueued
          /\ tx = RingBuffer_init(BLE_BUFFER_SIZE)
          /\ wire = <<>>
       \/ /\ rx = RingBuffer_init(BLE_BUFFER_SIZE)
          /\ seen = <<>>
          /\ rxStream = <<>>
          /\ rxPos = 0
          /\ tx = NearlyFull
          /\ wire = Counted(1, IoRead)

NextIO ==
    \/ RxIsr \/ TxIsr
    \/ CallRead \/ CallAvailable \/ CallPrintChar
    \/ ReadCheck \/ ReadLoad \/ ReadTail
    \/ AvailableLoad
    \/ PushCheck \/ PushData \/ PushHead
    \/ PrintCharLoad \/ PrintCharStore

SpecIO == InitIO /\ [][NextIO]_vars

(***************************************************************************)
(* C13: blePrintChar never blocks.  On a full TX queue it returns false    *)
(* and changes neither the queue nor the interrupt enable; when it returns *)
(* true the byte has been put at the end of the TX queue and the           *)
(* transmit-ready interrupt is enabled on return.                          *)
(***************************************************************************)
PrintCharLabels == {"wp_check", "wp_data", "wp_head", "wp_load", "wp_store"}

\* how far a call of blePrintChar has come
PrintCharRank(pc) ==
    CASE pc = "wp_check" -> 1
      [] pc = "wp_data"  -> 2
      [] pc = "wp_head"  -> 3
      [] pc = "wp_load"  -> 4
      [] pc = "wp_store" -> 5
      [] OTHER           -> 6

PrintCharStep == fg.pc \in PrintCharLabels /\ fg' # fg

Last(s) == s[Len(s)]

C13_PrintCharNeverBlocks ==
    [][PrintCharStep =>
          /\ PrintCharRank(fg'.pc) > PrintCharRank(fg.pc)
          /\ (fg.pc = "wp_check" /\ RingBuffer_is_full(tx)) =>
                (fg'.pc = "idle" /\ ~fg'.ret /\ UNCHANGED <<tx, udrie>>)
          /\ (fg'.pc = "idle" /\ ~fg'.ret) =>
                (fg.pc = "wp_check" /\ RingBuffer_is_full(tx) /\ UNCHANGED <<tx, udrie>>)
          /\ fg.pc = "wp_head" => Queued(tx') = Append(Queued(tx), fg.ch)
          /\ (fg'.pc = "idle" /\ fg'.ret) =>
                (udrie' /\ Last(wire' \o Queued(tx')) = fg.ch)]_vars

\* a first byte was taken and filled the queue, a second was refused
C13_Witness ==
    /\ fg.pc = "idle"
    /\ fg.log = <<[fn |-> "blePrintChar", ret |-> TRUE],
                  [fn |-> "blePrintChar", ret |-> FALSE]>>
    /\ wire = Counted(1, IoRead)
    /\ Queued(tx) = Counted(IoRead + 1, IoRead + IoQueued) \o <<200>>
    /\ udrie

(***************************************************************************)
(* C16: overrun.  When the receive handler runs on a full RX queue the     *)
(* byte is dropped: the count of bytes available, head, tail and the       *)
(* bytes stored do not change, and the bytes queued are then read          *)
(* unchanged and in order, at whatever point of bleRead or bleAvailable    *)
(* the handler comes in.                                                   *)
(***************************************************************************)
Arrival == rxPos' = rxPos + 1

ReadReturnsByte == fg.pc = "rd_tail" /\ fg'.pc = "idle"

C16_OverrunDropsTheByte ==
    [][/\ (Arrival /\ RingBuffer_is_full(rx)) =>
             /\ rx' = rx
             /\ RingBuffer_available(rx') = RingBuffer_available(rx)
             /\ UNCHANGED <<fg, seen>>
       /\ ReadReturnsByte =>
             /\ fg'.val = CharValue(Head(Queued(rx)))
             /\ Queued(rx') = Tail(Queued(rx))
       /\ (fg.pc = "av_load" /\ fg'.pc = "idle") =>
             fg'.val = Len(Queued(rx))]_vars

\* the first call, a bleRead made on the full queue, has loaded the oldest
\* byte; the byte that arrived since the call was dropped
C16_Witness ==
    /\ fg.calls = 1 /\ fg.top = "bleRead" /\ fg.pc = "rd_tail"
    /\ fg.arrived = IoRead + IoQueued + 1
    /\ rxPos = fg.arrived + 1
    /\ RingBuffer_is_full(rx)
    /\ Queued(rx) = Counted(IoRead + 1, fg.arrived)
    /\ fg.ch = IoRead + 1

(***************************************************************************)
(* C17: with no flush, bytes pass through both queues in the order they    *)
(* came, none twice, none merged, under every interleaving: what bleRead   *)
(* returns is what arrived, in order, less the bytes dropped on overrun,   *)
(* and what goes on the wire is what blePrintChar took, in the order taken.*)
(***************************************************************************)
InOrder(s) == \A i \in 1..(Len(s) - 1) : s[i] < s[i + 1]

\* the bytes of the calls of blePrintChar that returned true: call k
\* writes the byte 200 + k - 1
Accepted ==
    LET Took(k) == fg.log[k].fn = "blePrintChar" /\ fg.log[k].ret
        F[k \in 0..Len(fg.log)] ==
            IF k = 0 THEN <<>>
            ELSE IF Took(k) THEN Append(F[k - 1], 200 + k - 1) ELSE F[k - 1]
    IN F[Len(fg.log)]

\* the byte of a call that has advanced head and not yet returned
InFlight == IF fg.pc \in {"wp_load", "wp_store"} THEN <<fg.ch>> ELSE <<>>

Written(b) == b >= 200

FifoState ==
    LET received == seen \o Queued(rx)
        taken    == wire \o Queued(tx)
    IN /\ InOrder(received)
       /\ \A i \in 1..Len(received) : received[i] \in 1..rxPos
       /\ InOrder(taken)
       /\ SelectSeq(taken, Written) = Accepted \o InFlight

FifoStep ==
    LET rxq == Queued(rx)
        txq == Queued(tx)
    IN /\ Arrival =>
             /\ Queued(rx') = IF RingBuffer_is_full(rx) THEN rxq
                              ELSE Append(rxq, rxStream[rxPos + 1])
             /\ seen' = seen
       /\ seen' # seen =>
             /\ seen' = Append(seen, Head(rxq))
             /\ Queued(rx') = Tail(rxq)
       /\ (~Arrival /\ seen' = seen) => rx' = rx
       /\ wire' # wire =>
             /\ wire' = Append(wire, Head(txq))
             /\ Queued(tx') = Tail(txq)
       /\ (wire' = wire /\ fg.pc \notin {"wp_data", "wp_head"}) => tx' = tx
       /\ (fg.pc = "wp_data" /\ wire' = wire) => Queued(tx') = txq
       /\ (fg.pc = "wp_head" /\ wire' = wire) =>
             Queued(tx') = IF fg' # fg THEN Append(txq, fg.ch) ELSE txq

C17_StrictFifoBothWays == []FifoState /\ [][FifoStep]_vars

\* read, written, read, with all the later bytes arrived and one of them
\* dropped: two bytes read in order, the written byte sent
C17_Witness ==
    /\ fg.pc = "idle"
    /\ fg.log = <<[fn |-> "bleRead", ret |-> TRUE], [fn |-> "blePrintChar", ret |-> TRUE],
                  [fn |-> "bleRead", ret |-> TRUE]>>
    /\ seen = Counted(1, IoRead + 2)
    /\ wire = <<201>>
    /\ rxPos = Len(rxStream)
    /\ Len(seen) + Len(Queued(rx)) = rxPos - 1

(***************************************************************************)
(* SpecFL: the application flushes, writes and reads while both handlers   *)
(* run.  It starts with four bytes through each queue, two of them still   *)
(* queued.  The stores of bleTxFlush and bleRxFlush are taken in the       *)
(* order of the source.                                                    *)
(***************************************************************************)
\* the call is recorded with the number of bytes that had been sent
CallTxFlush ==
    /\ fg.pc = "idle" /\ fg.calls < MaxIo
    /\ fg' = [Applied(fg, "bleTxFlush", "tf_udrie") EXCEPT
                 !.stack = <<"fl_done", "idle">>, !.sent = Len(wire)]
    /\ FgOnly

\* the call is recorded with the number of bytes that had arrived
CallRxFlush ==
    /\ fg.pc = "idle" /\ fg.calls < MaxIo
    /\ fg' = [Applied(fg, "bleRxFlush", "rf_head") EXCEPT
                 !.stack = <<"fl_done", "idle">>, !.flushedAt = rxPos]
    /\ FgOnly

\* bleTxFlush or bleRxFlush has returned
FlushDone ==
    /\ fg.pc = "fl_done"
    /\ fg' = Observed(fg, TRUE)
    /\ FgOnly

InitFL ==
    /\ QueueIdle
    /\ uartBuffer = ZeroBuffer
    /\ udrie = TRUE
    /\ rxFree = 0
    /\ rxGate = FALSE
    /\ rxLag = BLE_BUFFER_SIZE
    /\ timer0_millis = U32(0, 0)
    /\ timer0_fract = 0
    /\ charSigned = TRUE
    /\ deviceName = ZeroName
    /\ fg = [FgIdle EXCEPT !.pc = "idle"]
    /\ operationMode = "dataMode"
    /\ rx = QueueAfter(4, 2)
    /\ seen = Counted(1, 2)
    /\ rxStream = Counted(1, 4 + MaxArrivals)
    /\ rxPos = 4
    /\ tx = QueueAfter(4, 2)
    /\ wire = Counted(1, 2)

NextFL ==
    \/ RxIsr \/ TxIsr
    \/ CallRead \/ CallPrintChar \/ CallTxFlush \/ CallRxFlush
    \/ ReadCheck \/ ReadLoad \/ ReadTail
    \/ PushCheck \/ PushData \/ PushHead
    \/ PrintCharLoad \/ PrintCharStore
    \/ TxFlushLoad \/ TxFlushStore \/ TxFlushHead \/ TxFlushTail
    \/ RxFlushHead \/ RxFlushTail
    \/ FlushDone

SpecFL == InitFL /\ [][NextFL]_vars

\* the place in the log of the last return of the function, 0 if none
LastReturn(name) ==
    LET F[k \in 0..Len(fg.log)] ==
            IF k = 0 THEN 0
            ELSE IF fg.log[k].fn = name THEN k ELSE F[k - 1]
    IN F[Len(fg.log)]

FlushReturned(name) == fg.pc = "fl_done" /\ fg.top = name

(***************************************************************************)
(* C18: after bleTxFlush returns the TX queue is empty and the             *)
(* transmit-ready interrupt is disabled, and no byte that blePrintChar     *)
(* took before the flush goes on the wire after it, wherever the transmit  *)
(* handler comes in between the steps of bleTxFlush, the load and the      *)
(* store of its update of UCSR0B included.                                 *)
(***************************************************************************)
\* the smallest byte written after the last bleTxFlush that has returned:
\* call k writes 200 + k - 1
FirstNewByte ==
    IF FlushReturned("bleTxFlush") THEN 200 + fg.calls
    ELSE 200 + LastReturn("bleTxFlush")

TxFlushHasReturned == FlushReturned("bleTxFlush") \/ LastReturn("bleTxFlush") > 0

C18_TxFlushDiscards ==
    [][/\ (fg.pc = "tf_tail" /\ fg' # fg) => (Queued(tx') = <<>> /\ ~udrie')
       /\ FlushReturned("bleTxFlush") => UNCHANGED <<tx, udrie, wire>>
       /\ (TxFlushHasReturned /\ wire' # wire) => Last(wire') >= FirstNewByte]_vars

\* the handler sent byte 3 after bleTxFlush was called and before its store
\* to UCSR0B; byte 4 was discarded
C18_Witness ==
    /\ FlushReturned("bleTxFlush")
    /\ fg.sent = 2
    /\ wire = Counted(1, 3)
    /\ Queued(tx) = <<>>
    /\ tx.buffer[3] = 4
    /\ ~udrie

(***************************************************************************)
(* C19: after bleRxFlush returns, no byte that was in the RX queue before  *)
(* the call is returned by a later bleRead: the queue holds only bytes     *)
(* received during or after the call, and head and tail are consistent,    *)
(* also when the receive handler runs between the two index resets.        *)
(***************************************************************************)
RxFlushHasReturned == FlushReturned("bleRxFlush") \/ LastReturn("bleRxFlush") > 0

C19_RxFlushDiscards ==
    [][/\ (fg.pc = "rf_tail" /\ fg' # fg) =>
             /\ rx'.tail = 0
             /\ rx'.head = Len(Queued(rx'))
             /\ rx'.head <= rxPos - fg.flushedAt
             /\ InOrder(Queued(rx'))
             /\ \A i \in 1..Len(Queued(rx')) : Queued(rx')[i] > fg.flushedAt
       /\ (RxFlushHasReturned /\ seen' # seen) => Last(seen') > fg.flushedAt]_vars

\* two bytes arrived between the two resets: the first was queued and then
\* read, the second was dropped because head had come up to the old tail
C19_Witness ==
    /\ fg.pc = "idle"
    /\ fg.log = <<[fn |-> "bleRxFlush", ret |-> TRUE], [fn |-> "bleRead", ret |-> TRUE]>>
    /\ fg.flushedAt = 4
    /\ seen = <<1, 2, 5>>
    /\ rxPos = 6
    /\ Queued(rx) = <<>>

(***************************************************************************)
(* SpecTX: the application writes single bytes, bleTxFlush is not called.  *)
(* It starts after bleInit, or with the handler having switched itself     *)
(* off on the empty queue, or with two bytes queued.  A transmit-ready     *)
(* event occurs whenever the interrupt stays enabled (the data register    *)
(* empties after every byte), and a call of blePrintChar that has begun    *)
(* runs on when no handler is running.                                     *)
(***************************************************************************)
InitTX ==
    /\ QueueIdle
    /\ uartBuffer = ZeroBuffer
    /\ rx = RingBuffer_init(BLE_BUFFER_SIZE)
    /\ seen = <<>>
    /\ rxStream = <<>>
    /\ rxPos = 0
    /\ rxFree = 0
    /\ rxGate = FALSE
    /\ rxLag = BLE_BUFFER_SIZE
    /\ timer0_millis = U32(0, 0)
    /\ timer0_fract = 0
    /\ charSigned = TRUE
    /\ deviceName = ZeroName
    /\ fg = [FgIdle EXCEPT !.pc = "idle"]
    /\ operationMode = "dataMode"
    /\ \/ /\ tx = RingBuffer_init(BLE_BUFFER_SIZE)
          /\ wire = <<>>
          /\ udrie \in BOOLEAN
       \/ /\ tx = QueueAfter(4, 2)
          /\ wire = Counted(1, 2)
          /\ udrie = TRUE

NextTX ==
    \/ TxIsr
    \/ CallPrintChar
    \/ PushCheck \/ PushData \/ PushHead
    \/ PrintCharLoad \/ PrintCharStore

PrintCharRuns == PushCheck \/ PushData \/ PushHead \/ PrintCharLoad \/ PrintCharStore

SpecTX == InitTX /\ [][NextTX]_vars /\ WF_vars(TxIsr) /\ WF_vars(PrintCharRuns)

(***************************************************************************)
(* C20: no lost wake-up.  The transmit handler disables its interrupt      *)
(* only when it finds the TX queue empty, every successful blePrintChar    *)
(* after that enables it again, and so every byte blePrintChar has taken   *)
(* is in the end put on the wire, as long as transmit-ready events keep    *)
(* occurring and bleTxFlush is not called.                                 *)
(***************************************************************************)
Holds(q, b) == \E i \in 1..Len(q) : q[i] = b

\* the bytes the calls write, and with 3 and 4 the bytes queued at the start
WrittenBytes == {200 + k : k \in 0..(MaxIo - 1)}

HandlerDisables == udrie /\ ~udrie' /\ fg' = fg

PrintCharReturnsTrue == fg.pc = "wp_store" /\ fg'.pc = "idle"

C20_EveryByteTakenIsSent ==
    /\ [][/\ HandlerDisables => Queued(tx) = <<>>
          /\ PrintCharReturnsTrue => udrie']_vars
    /\ \A b \in WrittenBytes \cup {3, 4} :
          Holds(Queued(tx), b) ~> Holds(wire, b)

\* the handler had switched itself off on the empty queue; three bytes
\* written since have all been sent and it has switched itself off again
C20_Witness ==
    /\ fg.pc = "idle"
    /\ fg.log = <<[fn |-> "blePrintChar", ret |-> TRUE], [fn |-> "blePrintChar", ret |-> TRUE],
                  [fn |-> "blePrintChar", ret |-> TRUE]>>
    /\ wire = <<200, 201, 202>>
    /\ Queued(tx) = <<>>
    /\ ~udrie

(***************************************************************************)
(* rn4871.cpp: readUntilCR(uartBuffer, uartBufferLen, 0)                   *)
(***************************************************************************)
\* bytesRead = 0; startTime = millis()
ReadUntilInit ==
    /\ fg.pc = "ru_init"
    /\ fg' = [Goto(fg, "ru_loop") EXCEPT !.bytesRead = 0, !.startTime = millis]
    /\ FgOnly

\* while (bytesRead < size - start - 1) and the test of the deadline
ReadUntilLoop ==
    /\ fg.pc = "ru_loop"
    /\ fg' = IF /\ HasRoom(fg.bytesRead)
                /\ ULess16(USub32(millis, fg.startTime), READ_TIMEOUT)
             THEN Goto(fg, "ru_avail")
             ELSE Goto(fg, "ru_end")
    /\ FgOnly

\* if (bleAvailable())
ReadUntilAvail ==
    /\ fg.pc = "ru_avail"
    /\ fg' = IF bleAvailable # 0 THEN Goto(fg, "ru_read") ELSE Goto(fg, "ru_loop")
    /\ FgOnly

\* int c = bleRead(); and what is done with c
ReadUntilRead ==
    /\ fg.pc = "ru_read"
    /\ LET r == bleRead
           c == r.value
       IN /\ rx' = r.rb
          /\ seen' = IF r.ret THEN Noted(seen, r.byte) ELSE seen
          /\ IF c = -1
             THEN /\ fg' = Goto(fg, "ru_loop")
                  /\ UNCHANGED uartBuffer
             ELSE IF c = CR
             THEN /\ fg' = Goto(fg, "ru_end")
                  /\ UNCHANGED uartBuffer
             ELSE /\ uartBuffer' = [uartBuffer EXCEPT ![fg.bytesRead] = (c + 256) % 256]
                  /\ fg' = [Goto(fg, "ru_loop") EXCEPT !.bytesRead = fg.bytesRead + 1]
    /\ UNCHANGED <<queueVars, tx, udrie, wire, moduleVars, clockVars, charSigned, deviceName, operationMode>>

\* buffer[start + bytesRead] = '\0'; return bytesRead
ReadUntilEnd ==
    /\ fg.pc = "ru_end"
    /\ uartBuffer' = [uartBuffer EXCEPT ![fg.bytesRead] = NUL]
    /\ fg' = ReturnVal(fg, fg.bytesRead)
    /\ UNCHANGED <<queueVars, uartVars, moduleVars, clockVars, seen, charSigned, deviceName, operationMode>>

(***************************************************************************)
(* rn4871.cpp: getConnectionStatus()                                       *)
(***************************************************************************)
\* a test for the marker that never finds it (fault model)
NoneFound_never(buf) == FALSE

\* strstr(uartBuffer, NONE_RESP) != NULL
NoneFound(buf) == Contains(CStrFrom(buf, 0, DEFAULT_INPUT_BUFFER_SIZE), NONE_RESP)

\* sendCommand(GET_CONNECTION_STATUS)
ConnectionStatusEntry ==
    /\ fg.pc = "gk_entry"
    /\ fg' = Call([fg EXCEPT !.cmd = GET_CONNECTION_STATUS, !.timeout = DEFAULT_CMD_TIMEOUT],
                  "sc_entry", "gk_init")
    /\ FgOnly

\* previous = millis()
ConnectionStatusInit ==
    /\ fg.pc = "gk_init"
    /\ fg' = [Goto(fg, "gk_loop") EXCEPT !.start = millis]
    /\ FgOnly

\* while (millis() - previous < timeout); return -1
ConnectionStatusLoop ==
    /\ fg.pc = "gk_loop"
    /\ fg' = IF ULess16(USub32(millis, fg.start), fg.timeout)
             THEN Goto(fg, "gk_avail")
             ELSE ReturnVal(fg, -1)
    /\ FgOnly

\* if (bleAvailable() > 0) readUntilCR()
ConnectionStatusAvail ==
    /\ fg.pc = "gk_avail"
    /\ fg' = IF bleAvailable > 0 THEN Call(fg, "ru_init", "gk_line") ELSE Goto(fg, "gk_loop")
    /\ FgOnly

\* if (readUntilCR() > 0) return 0 or 1
ConnectionStatusLine ==
    /\ fg.pc = "gk_line"
    /\ fg' = IF fg.val > 0
             THEN ReturnVal(fg, IF NoneFound(uartBuffer) THEN 0 ELSE 1)
             ELSE Goto(fg, "gk_loop")
    /\ FgOnly

(***************************************************************************)
(* SpecGK: one call of getConnectionStatus().  The module answers once the *)
(* carriage return of the command is on the wire, at any moment, with one  *)
(* of GK_Streams; the scratch buffer holds an earlier answer.              *)
(***************************************************************************)
GK_Streams ==
    { <<>>,
      NONE_RESP \o <<CR, LF>>,
      <<LF>> \o NONE_RESP \o <<CR, LF>>,
      <<CR, CR>>,
      <<CR, LF>> \o Txt(<<"A", "B", ",", "0", ",", "1">>) \o <<CR, LF>>,
      Txt(<<"A", "B", ",", "0", ",", "1">>) \o <<CR, LF>> \o NONE_RESP \o <<CR, LF>>,
      Txt(<<"n", "o">>) }

\* an earlier answer with the marker in it
NoneBuffer ==
    [i \in 0..(DEFAULT_INPUT_BUFFER_SIZE - 1) |->
        IF i < 6 THEN (Txt(<<"X", "X">>) \o NONE_RESP)[i + 1] ELSE NUL]

InitGK ==
    /\ QueueIdle
    /\ rx = StaleQueue
    /\ tx = StaleQueue
    /\ uartBuffer = NoneBuffer
    /\ udrie = TRUE
    /\ wire = <<>>
    /\ rxStream \in GK_Streams
    /\ rxPos = 0
    /\ rxFree = 0
    /\ rxGate = TRUE
    /\ rxLag = BLE_BUFFER_SIZE
    /\ seen = <<>>
    /\ timer0_millis \in ClockStarts
    /\ timer0_fract \in FractStarts
    /\ charSigned \in BOOLEAN
    /\ deviceName = ZeroName
    /\ fg = [FgIdle EXCEPT !.pc = "gk_entry", !.stack = <<"done">>,
                           !.top = "getConnectionStatus"]
    /\ operationMode = "cmdMode"

NextGK ==
    \/ RxIsr \/ TxIsr \/ TimerIsr
    \/ SendCommandEntry \/ SendCommandRxFlush \/ SendCommandPrint
    \/ SendCommandCr \/ SendCommandReturn
    \/ TxFlushLoad \/ TxFlushStore \/ TxFlushHead \/ TxFlushTail
    \/ RxFlushHead \/ RxFlushTail
    \/ PrintStringTest \/ PrintStringCall \/ PrintStringAgain
    \/ PrintCharPush \/ PrintCharUdrie
    \/ ConnectionStatusEntry \/ ConnectionStatusInit \/ ConnectionStatusLoop
    \/ ConnectionStatusAvail \/ ConnectionStatusLine
    \/ ReadUntilInit \/ ReadUntilLoop \/ ReadUntilAvail \/ ReadUntilRead \/ ReadUntilEnd

SpecGK == InitGK /\ [][NextGK]_vars

\* the bytes of s after its leading carriage returns
RECURSIVE SkipCR(_)
SkipCR(s) == IF s = <<>> \/ Head(s) # CR THEN s ELSE SkipCR(Tail(s))

\* the bytes of s before its first carriage return
UntilCR(s) ==
    LET ends == {j \in 1..Len(s) : s[j] = CR} \cup {Len(s) + 1}
        stop == CHOOSE j \in ends : \A k \in ends : j <= k
    IN SubSeq(s, 1, stop - 1)

\* the first line with a character in it among the bytes read
ParsedLine == UntilCR(SkipCR(seen))

ConnectionStatusReturned == fg.pc = "done" /\ fg.top = "getConnectionStatus"

ClearAllServicesEntry ==
    /\ fg.pc = "ca_entry"
    /\ fg' = Call([fg EXCEPT !.cmd = CLEAR_ALL_SERVICES], "sc_entry", "ca_expect")
    /\ FgOnly

\* return expectResponse(AOK_RESP, DEFAULT_CMD_TIMEOUT)
ClearAllServicesExpect ==
    /\ fg.pc = "ca_expect"
    /\ fg' = [Goto(fg, "er_entry") EXCEPT !.expected = AOK_RESP,
                                         !.timeout = DEFAULT_CMD_TIMEOUT]
    /\ FgOnly

(***************************************************************************)
(* SpecCA: one call of clearAllServices().  The module answers AOK CR LF   *)
(* once the carriage return of the command is on the wire, at any moment   *)
(* from then on.                                                           *)
(***************************************************************************)
InitCA ==
    /\ QueueIdle
    /\ rx = StaleQueue
    /\ tx = StaleQueue
    /\ uartBuffer = ZeroBuffer
    /\ udrie = TRUE
    /\ wire = <<>>
    /\ rxStream = AOK_RESP \o <<CR, LF>>
    /\ rxPos = 0
    /\ rxFree = 0
    /\ rxGate = TRUE
    /\ rxLag = BLE_BUFFER_SIZE
    /\ seen = <<>>
    /\ timer0_millis \in ClockStarts
    /\ timer0_fract \in FractStarts
    /\ charSigned \in BOOLEAN
    /\ deviceName = ZeroName
    /\ fg = [FgIdle EXCEPT !.pc = "ca_entry", !.stack = <<"done">>,
                           !.ret = TRUE, !.top = "clearAllServices"]
    /\ operationMode = "cmdMode"

NextCA ==
    \/ RxIsr \/ TxIsr \/ TimerIsr
    \/ RxFlushHead \/ RxFlushTail
    \/ TxFlushLoad \/ TxFlushStore \/ TxFlushHead \/ TxFlushTail
    \/ PrintCharPush \/ PrintCharUdrie
    \/ PrintStringTest \/ PrintStringCall \/ PrintStringAgain
    \/ SendCommandEntry \/ SendCommandRxFlush \/ SendCommandPrint
    \/ SendCommandCr \/ SendCommandReturn
    \/ ExpectEntry \/ ExpectInit \/ ExpectLoop \/ ExpectAvail \/ ExpectRead
    \/ ClearAllServicesEntry \/ ClearAllServicesExpect

SpecCA == InitCA /\ [][NextCA]_vars

ClearAllServicesReturned == fg.pc = "done" /\ fg.top = "clearAllServices"

\* the whole answer has been received and the deadline of the wait is open
AnswerReceivedInTime == rxPos = Len(rxStream) /\ DeadlineOpen

(***************************************************************************)
(* C22 as stated: when the first line the module sends for the command     *)
(* contains AOK and is fully received within the deadline,                 *)
(* clearAllServices returns true, whenever the bytes of the answer arrive, *)
(* also between the return of sendCommand and the start of the reading.    *)
(***************************************************************************)
C22_Original_TrueForEveryTiming ==
    ClearAllServicesReturned /\ AnswerReceivedInTime => fg.ret = TRUE

(***************************************************************************)
(* C22: clearAllServices returns true when the wait itself has read the    *)
(* whole line with AOK in it, that is when no byte of the answer was       *)
(* received before the wait emptied the RX queue.                          *)
(***************************************************************************)
C22_TrueWhenWholeLineRead ==
    ClearAllServicesReturned /\ seen = rxStream => fg.ret = TRUE

C22_Witness ==
    /\ ClearAllServicesReturned
    /\ seen = rxStream
    /\ fg.ret = TRUE

(***************************************************************************)
(* rn4871.cpp: setSerializedName(newName) and getDeviceName(), as calls of *)
(* the session.                                                            *)
(***************************************************************************)
\* a length that is never cut to the maximum (fault model)
NameLen_whole(newName) == Uint8(Len(newName))

\* uint8_t newLen = strlen(newName), cut to MAX_SERIALIZED_NAME_LEN
NameLen(newName) ==
    IF Uint8(Len(newName)) > MAX_SERIALIZED_NAME_LEN
    THEN MAX_SERIALIZED_NAME_LEN
    ELSE Uint8(Len(newName))

\* memcpy(dst + at, src, n) on a char array of the given size
Memcpy(dst, at, src, n, size) ==
    [i \in 0..(size - 1) |-> IF at <= i /\ i < at + n THEN src[i - at + 1] ELSE dst[i]]

\* memset(deviceName, 0, newLen); memcpy(deviceName, newName, newLen)
NameStored(name, newName) ==
    Memcpy([i \in 0..(MAX_DEVICE_NAME_LEN - 1) |->
               IF i < NameLen(newName) THEN NUL ELSE name[i]],
           0, newName, NameLen(newName), MAX_DEVICE_NAME_LEN)

\* memcpy(uartBuffer, SET_SERIALIZED_NAME, len);
\* memcpy(&uartBuffer[len], newName, newLen)
NameCommandBuffer(buf, newName) ==
    Memcpy(Memcpy(buf, 0, SET_SERIALIZED_NAME, Uint8(Len(SET_SERIALIZED_NAME)),
                  DEFAULT_INPUT_BUFFER_SIZE),
           Uint8(Len(SET_SERIALIZED_NAME)), newName, NameLen(newName),
           DEFAULT_INPUT_BUFFER_SIZE)

\* the names the application passes: none, short, longer, one over the
\* maximum, one longer than a uint8_t counts
NameOf(n, first) == [i \in 1..n |-> first + (i % 8)]
SN_Names ==
    { NameOf(0, 0), NameOf(2, 64), NameOf(6, 96),
      NameOf(MAX_SERIALIZED_NAME_LEN + 1, 48), NameOf(258, 72) }

\* what the module may answer to the command: nothing, the
\* acknowledgement, an error
NameReplies ==
    {<<>>, AOK_RESP \o <<CR, LF>>, Txt(<<"E", "r", "r">>) \o <<CR, LF>>}

CallSetSerializedName ==
    /\ fg.pc = "idle" /\ fg.calls < MaxCalls
    /\ \E newName \in SN_Names :
         fg' = Invoked([fg EXCEPT !.name = newName, !.sent = Len(wire)],
                       "setSerializedName", "sn_entry")
    /\ SessionOnly

CallGetDeviceName ==
    /\ fg.pc = "idle" /\ fg.calls < MaxCalls
    /\ fg' = Invoked(fg, "getDeviceName", "gd_entry")
    /\ SessionOnly

\* bool setSerializedName(const char *newName) up to sendCommand(uartBuffer)
\* -- lines 309..320
SetSerializedNameSend ==
    /\ fg.pc = "sn_entry"
    /\ LET buf == NameCommandBuffer(uartBuffer, fg.name)
       IN /\ deviceName' = NameStored(deviceName, fg.name)
          /\ uartBuffer' = buf
          /\ CommandSent(CStrFrom(buf, 0, DEFAULT_INPUT_BUFFER_SIZE))
    /\ fg' = Goto(fg, "sn_expect")
    /\ UNCHANGED <<queueVars, moduleVars, clockVars, seen, charSigned, operationMode>>

\* return expectResponse(AOK_RESP, DEFAULT_CMD_TIMEOUT) -- line 321
SetSerializedNameExpect ==
    /\ fg.pc = "sn_expect"
    /\ \E reply \in NameReplies :
         LET r == ExpectScan(ZeroBuffer, 0, reply, 0, AOK_RESP)
         IN /\ rx' = PopN(PushAll(Flushed(rx), reply), r.read)
            /\ seen' = SubSeq(reply, 1, r.read)
            /\ uartBuffer' = r.buf
            /\ fg' = Returned(fg, "setSerializedName", r.ret)
    /\ UNCHANGED <<queueVars, tx, udrie, wire, moduleVars, clockVars, charSigned, deviceName, operationMode>>

\* const char* getDeviceName(): return deviceName, read as a C string
GetDeviceName ==
    /\ fg.pc = "gd_entry"
    /\ fg' = [Returned(fg, "getDeviceName", fg.ret)
                 EXCEPT !.str = CStrFrom(deviceName, 0, MAX_DEVICE_NAME_LEN)]
    /\ SessionOnly

(***************************************************************************)
(* SpecSN: a fresh session in which the application makes up to MaxCalls   *)
(* calls of reboot, setSerializedName and getDeviceName, in any order.     *)
(***************************************************************************)
NextSN ==
    \/ CallReboot \/ RebootSend \/ RebootExpect
    \/ CallSetSerializedName \/ SetSerializedNameSend \/ SetSerializedNameExpect
    \/ CallGetDeviceName \/ GetDeviceName

SpecSN == FreshSession /\ [][NextSN]_vars

\* the first min(len, MAX_SERIALIZED_NAME_LEN) characters of a name
Truncated(newName) == Take(newName, MAX_SERIALIZED_NAME_LEN)

\* the first min(len mod 256, MAX_SERIALIZED_NAME_LEN) characters of a name
Counted8(newName) == Truncated(Take(newName, Len(newName) % 256))

\* what the call under way or just returned has put on the wire
SentByCall == SubSeq(wire, fg.sent + 1, Len(wire))

SerializedNameReturned == fg.pc = "idle" /\ fg.top = "setSerializedName"

(***************************************************************************)
(* C23 as stated: setSerializedName(name) sends the verb prefix, the first *)
(* min(len(name), MAX_SERIALIZED_NAME_LEN) characters of the name and CR,  *)
(* and nothing else, whatever the scratch buffer held before.              *)
(***************************************************************************)
C23_Original_PrefixNameCarriageReturn ==
    SerializedNameReturned =>
        SentByCall = SET_SERIALIZED_NAME \o Truncated(fg.name) \o <<CR>>

(***************************************************************************)
(* C23: setSerializedName(name) sends the verb prefix, the first           *)
(* min(len(name) mod 256, MAX_SERIALIZED_NAME_LEN) characters of the name  *)
(* and CR, and nothing else, when the scratch buffer holds a zero byte     *)
(* right after the place the name is copied to.                            *)
(***************************************************************************)
C23_PrefixNameCarriageReturnWhenTerminated ==
    [][(fg.pc = "sn_entry"
        /\ uartBuffer[Len(SET_SERIALIZED_NAME) + Len(Counted8(fg.name))] = NUL)
       => wire' = wire \o SET_SERIALIZED_NAME \o Counted8(fg.name) \o <<CR>>]_vars

\* a name one longer than the maximum, sent cut to the maximum
C23_Witness ==
    /\ SerializedNameReturned
    /\ Len(fg.name) = MAX_SERIALIZED_NAME_LEN + 1
    /\ SentByCall = SET_SERIALIZED_NAME \o Truncated(fg.name) \o <<CR>>

DeviceNameReturned == fg.pc = "idle" /\ fg.top = "getDeviceName"

(***************************************************************************)
(* C26 as stated: after any sequence of setSerializedName calls,           *)
(* getDeviceName returns exactly the truncated name passed to the most     *)
(* recent call, with nothing left over from an earlier, longer name.       *)
(***************************************************************************)
C26_Original_ExactlyTheLastName ==
    DeviceNameReturned => fg.str = Truncated(fg.name)

(***************************************************************************)
(* C26: getDeviceName returns a string that begins with the first          *)
(* min(len mod 256, MAX_SERIALIZED_NAME_LEN) characters of the name passed *)
(* to the most recent setSerializedName call.                              *)
(***************************************************************************)
C26_BeginsWithTheLastName ==
    DeviceNameReturned =>
        Take(fg.str, Len(Counted8(fg.name))) = Counted8(fg.name)

\* a short name set after a longer one, then read back with the tail of
\* the longer one
C26_Witness ==
    /\ DeviceNameReturned
    /\ Len(fg.name) = 2
    /\ Len(fg.str) = 6

(***************************************************************************)
(* SpecRD: the application calls bleRead up to MaxIo times on an RX queue  *)
(* that starts empty while two bytes arrive, the first of any value        *)
(* 0x00..0xFF.                                                             *)
(***************************************************************************)
ByteValues == 0..255

InitRD ==
    /\ QueueIdle
    /\ uartBuffer = ZeroBuffer
    /\ rx = RingBuffer_init(BLE_BUFFER_SIZE)
    /\ tx = RingBuffer_init(BLE_BUFFER_SIZE)
    /\ udrie = FALSE
    /\ wire = <<>>
    /\ \E b \in ByteValues : rxStream = <<b, 255 - b>>
    /\ rxPos = 0
    /\ rxFree = 0
    /\ rxGate = FALSE
    /\ rxLag = BLE_BUFFER_SIZE
    /\ seen = <<>>
    /\ timer0_millis = U32(0, 0)
    /\ timer0_fract = 0
    /\ charSigned \in BOOLEAN
    /\ deviceName = ZeroName
    /\ fg = [FgIdle EXCEPT !.pc = "idle"]
    /\ operationMode = "dataMode"

NextRD ==
    \/ RxIsr
    \/ CallRead
    \/ ReadCheck \/ ReadLoad \/ ReadTail

SpecRD == InitRD /\ [][NextRD]_vars

\* a call of bleRead has returned; the log tells whether it took a byte
ReadReturned == fg.pc = "idle" /\ fg.top = "bleRead" /\ fg.log # <<>>
ByteTaken == Last(fg.log).ret

(***************************************************************************)
(* C24 as stated: bleRead returns -1 if and only if the RX queue was empty *)
(* at the call; otherwise it removes the oldest byte and returns that      *)
(* byte's value, for every value 0x00..0xFF, so a byte is always told      *)
(* from 'none'.                                                            *)
(***************************************************************************)
C24_Original_MinusOneIffEmpty ==
    ReadReturned =>
        /\ fg.val = -1 <=> ~ByteTaken
        /\ ByteTaken => fg.val = Last(seen)

(***************************************************************************)
(* C24: bleRead returns -1 on the empty queue; otherwise it removes the    *)
(* oldest byte and returns it as a plain char converted to int: the        *)
(* byte's value modulo 256, in -128..255, which is -1 only for the byte    *)
(* 0xFF.                                                                   *)
(***************************************************************************)
C24_ByteValueModulo256 ==
    ReadReturned =>
        /\ ~ByteTaken => fg.val = -1
        /\ ByteTaken =>
              /\ fg.val \in -128..255
              /\ (fg.val + 256) % 256 = Last(seen)
              /\ Last(seen) = rxStream[Len(seen)]
              /\ fg.val = -1 => Last(seen) = 255

\* the byte 0xFF has been taken from the queue and -1 returned
C24_Witness ==
    /\ ReadReturned
    /\ ByteTaken
    /\ Last(seen) = 255
    /\ fg.val = -1

\* a step of the foreground; the handlers leave its locals alone
ForegroundStep == fg' # fg
\* a step of the receive handler, of the transmit handler
ReceiveStep == rxPos' # rxPos
TransmitStep == fg' = fg /\ ~ReceiveStep

(***************************************************************************)
(* C25 as stated: across all transport operations, the flushes included,   *)
(* the RX head is written only by the receive handler and the RX tail only *)
(* by the foreground, the TX head only by the foreground and the TX tail   *)
(* only by the transmit handler.                                           *)
(***************************************************************************)
C25_Original_StrictRoleSeparation ==
    [][/\ rx'.head # rx.head => ReceiveStep
       /\ rx'.tail # rx.tail => ForegroundStep
       /\ tx'.head # tx.head => ForegroundStep
       /\ tx'.tail # tx.tail => TransmitStep]_vars

(***************************************************************************)
(* C25: the roles are kept by every step outside the flushes: the RX head  *)
(* is written by the receive handler or by the first store of bleRxFlush,  *)
(* the TX tail by the transmit handler or by the last store of bleTxFlush; *)
(* the RX tail and the TX head are written by the foreground only.         *)
(***************************************************************************)
C25_RolesKeptOutsideTheFlushes ==
    [][/\ rx'.head # rx.head => ReceiveStep \/ (ForegroundStep /\ fg.pc = "rf_head")
       /\ rx'.tail # rx.tail => ForegroundStep
       /\ tx'.head # tx.head => ForegroundStep
       /\ tx'.tail # tx.tail => TransmitStep \/ (ForegroundStep /\ fg.pc = "tf_tail")]_vars

\* bleRxFlush has reset the head of the RX queue, which held two bytes
C25_Witness ==
    /\ fg.top = "bleRxFlush" /\ fg.pc = "rf_tail"
    /\ rx.head = 0
    /\ rx.tail = 2

(***************************************************************************)
(* SpecPL: one call parseLsCmd(PL_Uuid, p) for p in PL_Properties while    *)
(* the module streams one of PL_Listings, starting at any moment, also     *)
(* before the parser has cleared the RX queue, and never more than SlowLag *)
(* bytes ahead of the parser.  The timer interrupt is followed while the   *)
(* parser has nothing to read and the module nothing more to send.         *)
(***************************************************************************)
PL_Uuid == Txt(<<"A", "B", "1", "2">>)
EndToken == Txt(<<"E", "N", "D">>)

PL_Listings ==
    { <<>>,
      \* a property that differs, the last match, END, a line after END
      PL_Uuid \o Txt(<<",", "0", "0", "7", "2", ",", "0", "2">>) \o <<CR, LF>>
        \o PL_Uuid \o Txt(<<",", "0", "0", "7", "5", ",", "1", "0">>) \o <<CR, LF>>
        \o PL_Uuid \o Txt(<<",", "0", "0", "7", "8", ",", "0", "2">>) \o <<CR, LF>>
        \o EndToken \o <<CR, LF>>
        \o PL_Uuid \o Txt(<<",", "0", "0", "8", "1", ",", "0", "2">>) \o <<CR, LF>>,
      \* a lone CR and a lone LF inside a line, lines with END and more, a
      \* handle that is no number, a line without its end
      PL_Uuid \o <<CR>> \o Txt(<<",", "0", "0", "7", "2", ",", "0", "2">>) \o <<LF>>
        \o Txt(<<"1">>) \o <<CR, LF>>
        \o Txt(<<"X", "E", "N", "D">>) \o <<CR, LF>>
        \o Txt(<<"E", "N", "D", "X">>) \o <<CR, LF>>
        \o PL_Uuid \o Txt(<<",", "0", "0", "G", "5", ",", "0", "2">>) \o <<CR, LF>>
        \o PL_Uuid \o Txt(<<",", "0", "0", "7", "9", ",", "1", "0">>),
      \* two carriage returns before the line feed
      PL_Uuid \o Txt(<<",", "0", "0", "7", "2", ",", "0", "2">>) \o <<CR, CR, LF>>
        \o EndToken \o <<CR, LF>>,
      \* a property that is no number, a line feed alone on a line, an empty
      \* line, another UUID
      PL_Uuid \o Txt(<<",", "0", "0", "7", "5", ",", "0", "G">>) \o <<CR, LF>>
        \o <<LF, CR, LF>> \o <<CR, LF>>
        \o Txt(<<"9", "9", "1", "2", ",", "0", "0", "7", "2", ",", "0", "2">>)
        \o <<CR, LF>> }

PL_Properties == {0, 2, 16}

\* ISR(TIMER0_OVF_vect) while the parser waits
TimerWhileWaiting ==
    /\ ModuleSilent
    /\ TimerIsr

InitPL ==
    /\ QueueIdle
    /\ rx = RingBuffer_init(BLE_BUFFER_SIZE)
    /\ tx = RingBuffer_init(BLE_BUFFER_SIZE)
    /\ udrie = FALSE
    /\ wire = <<>>
    /\ rxStream \in PL_Listings
    /\ rxPos = 0
    /\ rxFree = 0
    /\ rxGate = FALSE
    /\ rxLag = SlowLag
    /\ seen = <<>>
    /\ timer0_millis \in ClockStarts
    /\ timer0_fract \in FractStarts
    /\ charSigned \in BOOLEAN
    /\ deviceName = ZeroName
    /\ \E p \in PL_Properties :
         fg = [FgIdle EXCEPT !.pc = "pl_entry", !.stack = <<"done">>,
                             !.top = "parseLsCmd",
                             !.targetUuid = PL_Uuid, !.targetProperty = p]
    /\ uartBuffer = ZeroBuffer
    /\ operationMode = "cmdMode"

NextPL ==
    \/ RxIsr \/ TimerWhileWaiting
    \/ RxFlushHead \/ RxFlushTail
    \/ ParseLsEntry \/ ParseLsInit \/ ParseLsLoop \/ ParseLsAvail
    \/ ParseLsRead \/ ParseLsTail

SpecPL == InitPL /\ [][NextPL]_vars

\* the parser is scanning: the lines recorded are the completed ones
Scanning == fg.top = "parseLsCmd" /\ fg.pc \in {"pl_loop", "pl_avail", "pl_read"}
ParseReturned == fg.top = "parseLsCmd" /\ fg.pc = "done"

\* the completed lines of the bytes s when a line ends at every CR that is
\* immediately followed by LF and every other byte is content
RECURSIVE LinesAtCRLF(_, _)
LinesAtCRLF(s, cur) ==
    IF s = <<>> THEN <<>>
    ELSE IF Head(s) = CR /\ Len(s) >= 2 /\ s[2] = LF
    THEN <<cur>> \o LinesAtCRLF(Tail(Tail(s)), <<>>)
    ELSE LinesAtCRLF(Tail(s), Append(cur, Head(s)))

\* the same when a CR that is followed by another CR is passed over
RECURSIVE LinesAtLastCR(_, _)
LinesAtLastCR(s, cur) ==
    IF s = <<>> THEN <<>>
    ELSE IF Head(s) = CR /\ Len(s) >= 2 /\ s[2] = LF
    THEN <<cur>> \o LinesAtLastCR(Tail(Tail(s)), <<>>)
    ELSE IF Head(s) = CR /\ Len(s) >= 2 /\ s[2] = CR
    THEN LinesAtLastCR(Tail(s), cur)
    ELSE LinesAtLastCR(Tail(s), Append(cur, Head(s)))

(***************************************************************************)
(* C27 as stated: the parser ends a line only at a CR immediately followed *)
(* by LF; every lone CR, one followed by another CR included, and every LF *)
(* not preceded by CR is kept as content of the line, in arrival order.    *)
(***************************************************************************)
C27_Original_EveryLoneCRKept ==
    Scanning => fg.lines = LinesAtCRLF(seen, <<>>)

(***************************************************************************)
(* C27: the parser ends a line only at a CR immediately followed by LF; a  *)
(* CR followed by a byte other than CR or LF and an LF not preceded by CR  *)
(* are kept as content of the line, in arrival order; a CR followed by     *)
(* another CR is dropped.                                                  *)
(***************************************************************************)
C27_LoneCRKeptUnlessBeforeCR ==
    Scanning => fg.lines = LinesAtLastCR(seen, <<>>)

\* a line with a lone CR and a lone LF in it has been completed
C27_Witness ==
    /\ Scanning
    /\ Len(fg.lines) = 1
    /\ fg.lines[1] = PL_Uuid \o <<CR>> \o Txt(<<",", "0", "0", "7", "2", ",", "0", "2">>)
                       \o <<LF>> \o Txt(<<"1">>)

\* the comma-separated fields of a line
RECURSIVE FieldsOf(_, _)
FieldsOf(line, cur) ==
    IF line = <<>> THEN <<cur>>
    ELSE IF Head(line) = Ord[","] THEN <<cur>> \o FieldsOf(Tail(line), <<>>)
    ELSE FieldsOf(Tail(line), Append(cur, Head(line)))

\* the place of the first field with the UUID in it, 0 if there is none
UuidField(line, uuid) ==
    LET f == FieldsOf(line, <<>>)
        F[k \in 0..Len(f)] ==
            IF k = 0 THEN 0
            ELSE IF F[k - 1] # 0 THEN F[k - 1]
            ELSE IF Contains(f[k], uuid) THEN k ELSE 0
    IN F[Len(f)]

\* the hexadecimal characters in the order of their values
HexUpper == [i \in 1..16 |-> IF i <= 10 THEN 47 + i ELSE 54 + i]
HexLower == [i \in 1..16 |-> IF i <= 10 THEN 47 + i ELSE 86 + i]

HexValue(ch) ==
    IF IndexOf(HexUpper, ch, 1) # 0 THEN IndexOf(HexUpper, ch, 1) - 1
    ELSE IndexOf(HexLower, ch, 1) - 1

\* the number written by the first n characters of a field, zero when one
\* of them is no hexadecimal character
RECURSIVE HexNumber(_, _)
HexNumber(field, n) ==
    IF n = 0 THEN 0
    ELSE IF \E i \in 1..n : HexValue(field[i]) = -1 THEN 0
    ELSE 16 * HexNumber(field, n - 1) + HexValue(field[n])

\* the line is a listing line for the UUID: a handle field of at least 4
\* and a property field of at least 2 characters follow the UUID's field
ListsUuid(line, uuid) ==
    LET f == FieldsOf(line, <<>>)
        k == UuidField(line, uuid)
    IN /\ k # 0
       /\ Len(f) >= k + 2
       /\ Len(f[k + 1]) >= 4
       /\ Len(f[k + 2]) >= 2

CandidateHandle(line, uuid) ==
    HexNumber(FieldsOf(line, <<>>)[UuidField(line, uuid) + 1], 4)

CandidateProperty(line, uuid) ==
    HexNumber(FieldsOf(line, <<>>)[UuidField(line, uuid) + 2], 2)

\* the parser completes a line
LineCompleted == fg.pc = "pl_read" /\ Len(fg'.lines) = Len(fg.lines) + 1

LastMatch(lines, uuid, property) ==
    LET F[k \in 0..Len(lines)] ==
            IF k = 0 THEN 0
            ELSE IF /\ ListsUuid(lines[k], uuid)
                    /\ CandidateProperty(lines[k], uuid) = property
            THEN CandidateHandle(lines[k], uuid)
            ELSE F[k - 1]
    IN F[Len(lines)]

(***************************************************************************)
(* C29: parseLsCmd returns the handle of the last line examined whose UUID *)
(* matched and whose decoded property is the requested one; lines with     *)
(* another property do not change it; it returns zero when no line         *)
(* matched.                                                                *)
(***************************************************************************)
C29_LastMatchWins ==
    ParseReturned => fg.val = LastMatch(fg.lines, fg.targetUuid, fg.targetProperty)

\* three lines list the UUID, the first and the third with the requested
\* property: the handle of the third is returned
C29_Witness ==
    /\ ParseReturned
    /\ fg.targetProperty = 2
    /\ Len(fg.lines) = 4
    /\ fg.lines[1] = PL_Uuid \o Txt(<<",", "0", "0", "7", "2", ",", "0", "2">>)
    /\ fg.lines[2] = PL_Uuid \o Txt(<<",", "0", "0", "7", "5", ",", "1", "0">>)
    /\ fg.lines[3] = PL_Uuid \o Txt(<<",", "0", "0", "7", "8", ",", "0", "2">>)
    /\ fg.val = 120

(***************************************************************************)
(* C30: as soon as a completed line is exactly END the parser stops        *)
(* scanning: it takes no further byte from the RX queue and returns the    *)
(* handle remembered so far; a line with END and other characters in it    *)
(* does not end the scan.                                                  *)
(***************************************************************************)
C30_EndStopsTheScan ==
    /\ [][/\ LineCompleted => (fg'.endReceived <=> Last(fg'.lines) = EndToken)
          /\ (fg.top = "parseLsCmd" /\ fg.endReceived) =>
                /\ seen' = seen
                /\ rx'.tail = rx.tail
                /\ fg'.endReceived
                /\ fg'.foundHandle = fg.foundHandle
                /\ fg'.lines = fg.lines]_vars
    /\ [](ParseReturned /\ fg.endReceived => fg.val = fg.foundHandle)

\* END has been read after three lines and the handle returned, with bytes
\* of the line after END left in the RX queue
C30_Witness ==
    /\ ParseReturned
    /\ fg.endReceived
    /\ Len(fg.lines) = 4
    /\ fg.val = 120
    /\ RingBuffer_available(rx) > 0

\* the bytes of s after its last completed line, as the parser holds them:
\* a CR followed by another CR, and a CR that is the last byte, are not in
\* the line
RECURSIVE Unterminated(_, _)
Unterminated(s, cur) ==
    IF s = <<>> THEN cur
    ELSE IF Head(s) = CR /\ Len(s) >= 2 /\ s[2] = LF
    THEN Unterminated(Tail(Tail(s)), <<>>)
    ELSE IF Head(s) = CR /\ (Len(s) = 1 \/ s[2] = CR)
    THEN Unterminated(Tail(s), cur)
    ELSE Unterminated(Tail(s), Append(cur, Head(s)))

\* the step on which parseLsCmd returns
ParseReturns == fg.top = "parseLsCmd" /\ fg.pc = "pl_tail" /\ fg'.pc = "done"

(***************************************************************************)
(* C31: when the parser leaves its loop without END while unterminated,    *)
(* non-empty line content is buffered, that partial line is examined       *)
(* exactly once, with the rules of a complete line, before the parser      *)
(* returns; with END seen or nothing buffered no line is examined.         *)
(***************************************************************************)
C31_PartialLineExaminedOnce ==
    [][ParseReturns =>
          LET partial == Unterminated(seen, <<>>)
          IN IF partial # <<>> /\ ~fg.endReceived
             THEN /\ fg'.lines = Append(fg.lines, partial)
                  /\ fg'.val =
                        IF /\ ListsUuid(partial, fg.targetUuid)
                           /\ CandidateProperty(partial, fg.targetUuid) = fg.targetProperty
                        THEN CandidateHandle(partial, fg.targetUuid)
                        ELSE fg.foundHandle
             ELSE /\ fg'.lines = fg.lines
                  /\ fg'.val = fg.foundHandle]_vars

\* the deadline has passed on the unterminated line AB12,0079,10 and its
\* handle is returned
C31_Witness ==
    /\ ParseReturned
    /\ ~fg.endReceived
    /\ fg.targetProperty = 16
    /\ fg.lines # <<>>
    /\ Last(fg.lines) = PL_Uuid \o Txt(<<",", "0", "0", "7", "9", ",", "1", "0">>)
    /\ Unterminated(seen, <<>>) = Last(fg.lines)
    /\ fg.val = 121
    /\ ~DeadlineOpen

\* getLastResponse(): return uartBuffer -- rn4871.cpp lines 576..578
getLastResponse == uartBuffer

\* the char array that holds the text s followed by NUL in every other cell
ArrayOf(s) ==
    [i \in 0..(DEFAULT_INPUT_BUFFER_SIZE - 1) |-> IF i < Len(s) THEN s[i + 1] ELSE NUL]

\* expectResponse has returned on a line feed
FinishedOnLineFeed == ExpectReturned /\ HasLF(seen)

(***************************************************************************)
(* C32 as stated: when expectResponse finishes on a line feed, the buffer  *)
(* given by getLastResponse holds the first line without its terminator    *)
(* CR LF, NUL-terminated, and nothing of an earlier answer or command.     *)
(***************************************************************************)
C32_Original_LineWithoutCRLF ==
    FinishedOnLineFeed =>
        getLastResponse = ArrayOf(Take(StripCR(BeforeLF(seen)), DEFAULT_INPUT_BUFFER_SIZE - 1))

(***************************************************************************)
(* C32: when expectResponse finishes on a line feed, the buffer given by   *)
(* getLastResponse holds the first 127 bytes read before the line feed,    *)
(* the carriage return of the terminator among them, NUL in every other    *)
(* cell, and so nothing of an earlier answer or command.                   *)
(***************************************************************************)
C32_LineWithItsCarriageReturn ==
    FinishedOnLineFeed =>
        getLastResponse = ArrayOf(Take(BeforeLF(seen), DEFAULT_INPUT_BUFFER_SIZE - 1))

\* the answer OK CR LF was read over the earlier answer AOK: the buffer
\* holds O, K, CR and NUL from there on
C32_Witness ==
    /\ FinishedOnLineFeed
    /\ seen = <<Ord["O"], Ord["K"], CR, LF>>
    /\ CStrFrom(getLastResponse, 0, DEFAULT_INPUT_BUFFER_SIZE) = <<Ord["O"], Ord["K"], CR>>
    /\ getLastResponse[3] = NUL

\* the clock units gone by since getConnectionStatus sent its command, when
\* they are fewer than limit
ElapsedBelow(limit) == ULess16(USub32(timer0_millis, fg.start), limit)

\* bytes of a line have been read and its carriage return has not
OnlyPartOfALine == SkipCR(seen) # <<>> /\ UntilCR(SkipCR(seen)) = SkipCR(seen)

\* the longest a clock step is: MILLIS_INC and the carry of the fraction
ClockStep == MILLIS_INC + 1

(***************************************************************************)
(* C33 as stated: getConnectionStatus polls for one line within the        *)
(* default deadline: it returns no later than DEFAULT_CMD_TIMEOUT clock    *)
(* units (to the precision of one clock step) after its command was sent,  *)
(* also when only part of a line has arrived, and then reports the timeout *)
(* outcome -1 rather than a parsed line.                                   *)
(***************************************************************************)
C33_Original_WithinTheDefaultDeadline ==
    ConnectionStatusReturned =>
        /\ ElapsedBelow(DEFAULT_CMD_TIMEOUT + ClockStep)
        /\ OnlyPartOfALine => fg.val = -1

(***************************************************************************)
(* C33: getConnectionStatus returns no later than DEFAULT_CMD_TIMEOUT plus *)
(* the 1000 units of the line read (to the precision of one clock step)    *)
(* after its command was sent; when only part of a line has arrived it     *)
(* returns once the 1000 units of the line read are over and reports the   *)
(* part as a parsed line (0 or 1), never -1.                               *)
(***************************************************************************)
C33_WithinDefaultPlusReadDeadline ==
    ConnectionStatusReturned =>
        /\ ElapsedBelow(DEFAULT_CMD_TIMEOUT + READ_TIMEOUT + ClockStep)
        /\ OnlyPartOfALine =>
              /\ fg.val \in {0, 1}
              /\ ~ElapsedBelow(READ_TIMEOUT)

\* the module sent n, o and nothing more: 1 is returned 1000 units or more
\* after the command
C33_Witness ==
    /\ ConnectionStatusReturned
    /\ seen = Txt(<<"n", "o">>)
    /\ OnlyPartOfALine
    /\ fg.val = 1
    /\ ~ElapsedBelow(READ_TIMEOUT)

(***************************************************************************)
(* bleSerial.cpp: bleReadBytes(buffer, length), with uartBuffer for buffer *)
(***************************************************************************)
\* const uint16_t timeout = 1000
READ_BYTES_TIMEOUT == 1000

\* bytesRead = 0; start = millis(); timeout = 1000 -- lines 104..106
ReadBytesInit ==
    /\ fg.pc = "rb_init"
    /\ fg' = [Goto(fg, "rb_loop") EXCEPT !.bytesRead = 0, !.start = millis,
                                        !.timeout = READ_BYTES_TIMEOUT]
    /\ FgOnly

\* while (bytesRead < length && (millis() - start < timeout)); return bytesRead
ReadBytesLoop ==
    /\ fg.pc = "rb_loop"
    /\ fg' = IF /\ fg.bytesRead < fg.length
                /\ ULess16(USub32(millis, fg.start), fg.timeout)
             THEN Goto(fg, "rb_avail")
             ELSE ReturnVal(fg, fg.bytesRead)
    /\ FgOnly

\* if (bleAvailable())
ReadBytesAvail ==
    /\ fg.pc = "rb_avail"
    /\ fg' = IF bleAvailable # 0 THEN Goto(fg, "rb_read") ELSE Goto(fg, "rb_loop")
    /\ FgOnly

\* int c = bleRead(); if (c != -1) buffer[bytesRead++] = (char)c
ReadBytesRead ==
    /\ fg.pc = "rb_read"
    /\ LET r == bleRead
           c == r.value
       IN /\ rx' = r.rb
          /\ seen' = IF r.ret THEN Noted(seen, r.byte) ELSE seen
          /\ IF c # -1
             THEN /\ uartBuffer' = [uartBuffer EXCEPT ![fg.bytesRead] = (c + 256) % 256]
                  /\ fg' = [Goto(fg, "rb_loop") EXCEPT !.bytesRead = fg.bytesRead + 1]
             ELSE /\ fg' = Goto(fg, "rb_loop")
                  /\ UNCHANGED uartBuffer
    /\ UNCHANGED <<queueVars, tx, udrie, wire, moduleVars, clockVars, charSigned, deviceName, operationMode>>

(***************************************************************************)
(* rn4871.cpp: cleanInputBuffer() and enterCommandMode(), step by step     *)
(***************************************************************************)
\* while (bleAvailable() > 0) -- line 186
CleanInputAvail ==
    /\ fg.pc = "ci_avail"
    /\ fg' = IF bleAvailable > 0 THEN Goto(fg, "ci_read") ELSE Return(fg, fg.ret)
    /\ FgOnly

\* bleRead(); -- line 187
CleanInputRead ==
    /\ fg.pc = "ci_read"
    /\ rx' = bleRead.rb
    /\ fg' = Goto(fg, "ci_avail")
    /\ UNCHANGED <<queueVars, tx, udrie, wire, moduleVars, clockVars, seen, charSigned, deviceName, uartBuffer, operationMode>>

\* _delay_ms(DELAY_BEFORE_CMD); flush(); bleTxFlush(); -- lines 211..213
CommandModeFlush ==
    /\ fg.pc = "cm_entry"
    /\ uartBuffer' = ZeroBuffer
    /\ fg' = Call(fg, "tf_udrie", "cm_clean")
    /\ UNCHANGED <<queueVars, uartVars, moduleVars, clockVars, seen, charSigned, deviceName, operationMode>>

\* cleanInputBuffer(); -- line 214
CommandModeClean ==
    /\ fg.pc = "cm_clean"
    /\ fg' = Call(fg, "ci_avail", "cm_print")
    /\ FgOnly

\* blePrintString(ENTER_CMD); -- line 215
CommandModePrint ==
    /\ fg.pc = "cm_print"
    /\ fg' = Call([fg EXCEPT !.str = ENTER_CMD, !.si = 1], "ps_test", "cm_start")
    /\ FgOnly

\* uint32_t start = millis(); -- line 217
CommandModeStart ==
    /\ fg.pc = "cm_start"
    /\ fg' = [Goto(fg, "cm_wait") EXCEPT !.start = millis, !.timeout = 30]
    /\ FgOnly

\* while ((millis() - start < 30) && ...) -- line 218, the first operand
CommandModeWait ==
    /\ fg.pc = "cm_wait"
    /\ fg' = IF ULess16(USub32(millis, fg.start), fg.timeout)
             THEN Goto(fg, "cm_count")
             ELSE Goto(fg, "cm_read")
    /\ FgOnly

\* the length of the answer the poll waits for -- line 218
PROMPT_LEN == 5

\* while (... && (bleAvailable() < 5)) {} -- line 218, the second operand
CommandModeCount ==
    /\ fg.pc = "cm_count"
    /\ fg' = IF bleAvailable < PROMPT_LEN THEN Goto(fg, "cm_wait") ELSE Goto(fg, "cm_read")
    /\ FgOnly

\* bleReadBytes(uartBuffer, bleAvailable()); -- line 220
CommandModeRead ==
    /\ fg.pc = "cm_read"
    /\ seen' = <<>>
    /\ fg' = Call([fg EXCEPT !.length = bleAvailable], "rb_init", "cm_match")
    /\ UNCHANGED <<queueVars, uartVars, moduleVars, clockVars, charSigned, deviceName, uartBuffer, operationMode>>

\* if (strstr(...) != NULL || strstr(...) != NULL) { setOperationMode(cmdMode);
\* return true; } return false; -- lines 221..225
CommandModeMatch ==
    /\ fg.pc = "cm_match"
    /\ operationMode' = IF PromptFound(uartBuffer)
                        THEN setOperationMode("cmdMode")
                        ELSE operationMode
    /\ fg' = Return(fg, PromptFound(uartBuffer))
    /\ UNCHANGED <<queueVars, uartVars, moduleVars, clockVars, seen, charSigned, deviceName, uartBuffer>>

(***************************************************************************)
(* SpecLV: one of the deadline-bounded waits runs while the module either  *)
(* sends nothing or sends without end, the receive handler firing at any   *)
(* moment at which fewer than FlowLag bytes are queued.                    *)
(***************************************************************************)
\* the most bytes the receive handler runs ahead of the foreground: those
\* that end the poll of enterCommandMode, and FlowLag for the other waits
FlowLag == 1

\* the module sends the bytes of rxStream over and over: carriage returns,
\* which parseLsCmd takes off the queue without storing them
RxIsrFlow ==
    /\ Running
    /\ rxStream # <<>>
    /\ RingBuffer_available(rx) < rxLag
    /\ \E i \in 1..Len(rxStream) : RxPush(rxStream[i])
    /\ UNCHANGED <<rxPos, rxFree>>

\* the RX queue with every cell written by earlier traffic, two bytes waiting
FlowQueue ==
    [RingBuffer_init(BLE_BUFFER_SIZE) EXCEPT
        !.buffer = [i \in 0..(BLE_BUFFER_SIZE - 1) |-> CR], !.head = 2]

LV_Waits ==
    { [FgIdle EXCEPT !.pc = "er_entry", !.stack = <<"done">>, !.top = "expectResponse",
                     !.expected = AOK_RESP, !.timeout = t] : t \in ER_Timeouts } \cup
    { [FgIdle EXCEPT !.pc = "rb_init", !.stack = <<"done">>, !.top = "bleReadBytes",
                     !.length = 3],
      [FgIdle EXCEPT !.pc = "pl_entry", !.stack = <<"done">>, !.top = "parseLsCmd",
                     !.targetUuid = PL_Uuid, !.targetProperty = 2],
      [FgIdle EXCEPT !.pc = "cm_entry", !.stack = <<"done">>, !.top = "enterCommandMode"] }

InitLV ==
    /\ QueueIdle
    /\ rx = FlowQueue
    /\ tx = RingBuffer_init(BLE_BUFFER_SIZE)
    /\ udrie = FALSE
    /\ wire = <<>>
    /\ rxStream \in {<<>>, <<CR>>}
    /\ rxPos = 0
    /\ rxFree = 0
    /\ rxGate = FALSE
    /\ seen = <<>>
    /\ timer0_millis \in ClockStarts
    /\ timer0_fract \in FractStarts
    /\ charSigned = FALSE
    /\ deviceName = ZeroName
    /\ fg \in LV_Waits
    /\ rxLag = (IF fg.top = "enterCommandMode" THEN PROMPT_LEN ELSE FlowLag)
    /\ uartBuffer = ZeroBuffer
    /\ operationMode = "dataMode"

\* the steps of the foreground
ForegroundLV ==
    \/ RxFlushHead \/ RxFlushTail
    \/ TxFlushLoad \/ TxFlushStore \/ TxFlushHead \/ TxFlushTail
    \/ PrintCharPush \/ PrintCharUdrie
    \/ PrintStringTest \/ PrintStringCall \/ PrintStringAgain
    \/ ExpectEntry \/ ExpectInit \/ ExpectLoop \/ ExpectAvail \/ ExpectRead
    \/ ParseLsEntry \/ ParseLsInit \/ ParseLsLoop \/ ParseLsAvail
    \/ ParseLsRead \/ ParseLsTail
    \/ ReadBytesInit \/ ReadBytesLoop \/ ReadBytesAvail \/ ReadBytesRead
    \/ CleanInputAvail \/ CleanInputRead
    \/ CommandModeFlush \/ CommandModeClean \/ CommandModePrint \/ CommandModeStart
    \/ CommandModeWait \/ CommandModeCount \/ CommandModeRead \/ CommandModeMatch

\* the labels at which millis() is called
ClockReadLabels == {"er_loop", "pl_loop", "cm_wait"}

\* An overflow of the timer shows only in the next value millis() returns:
\* the overflows are followed where the foreground is about to call it.
\* bleReadBytes calls millis() only while bytesRead < length; it ends by
\* its count while there are bytes to read, and the overflows are followed
\* there while it has none.
TimerAtClockRead ==
    /\ \/ fg.pc \in ClockReadLabels
       \/ fg.pc = "rb_loop" /\ fg.bytesRead < fg.length /\ bleAvailable = 0
    /\ TimerIsr

\* The transmit handler is left out: it only takes bytes from the TX queue
\* and switches itself off, and none of the waits reads either.
NextLV == RxIsrFlow \/ TimerAtClockRead \/ ForegroundLV

\* The foreground executes whenever no handler runs, and after a handler
\* returns at least one instruction of it is executed before the next
\* handler is entered: weak fairness of its steps.  Timer 0 overflows
\* periodically whatever else happens, so a wait that calls millis() again
\* and again sees the counter advance: strong fairness of the overflow at
\* the calls.
SpecLV ==
    InitLV /\ [][NextLV]_vars /\ WF_vars(ForegroundLV) /\ SF_vars(TimerAtClockRead)

WaitReturned == fg.pc = "done"

\* cleanInputBuffer, called by enterCommandMode, is taking a byte off the
\* RX queue
CleaningInput == fg.top = "enterCommandMode" /\ fg.pc = "ci_read"

(***************************************************************************)
(* C34 as stated: each of expectResponse, bleReadBytes, parseLsCmd and     *)
(* enterCommandMode eventually returns when the clock keeps advancing,     *)
(* whatever arrives on RX and however often the receive handler fires.     *)
(***************************************************************************)
C34_Original_EveryWaitReturns == <>WaitReturned

(***************************************************************************)
(* C34: expectResponse, bleReadBytes and parseLsCmd eventually return when *)
(* the clock keeps advancing, whatever arrives on RX; enterCommandMode     *)
(* eventually returns once cleanInputBuffer has found the RX queue empty,  *)
(* and until then it reads the queue again and again.                      *)
(***************************************************************************)
C34_ReturnsOnceInputIsClean == <>WaitReturned \/ []<>CleaningInput

\* enterCommandMode has returned false under an endless stream: the stream
\* paused long enough for cleanInputBuffer to find the RX queue empty, and
\* the five bytes that ended the poll were read into the buffer
C34_Witness ==
    /\ WaitReturned
    /\ fg.top = "enterCommandMode"
    /\ rxStream # <<>>
    /\ fg.val = PROMPT_LEN
    /\ seen = <<CR, CR, CR, CR, CR>>
    /\ ~fg.ret

(***************************************************************************)
(* wiring.cpp: millis(), one action per step between two points at which   *)
(* the overflow handler can run.  fg.SREG_I is the global interrupt enable *)
(* bit of SREG; the four bytes of timer0_millis are loaded one at a time.  *)
(***************************************************************************)
\* a cli() that leaves the bit as it was (fault model)
Cli_kept(i) == i

\* cli(): the I bit of SREG afterwards
Cli(i) == FALSE

\* uint8_t oldSREG = SREG; -- line 48
MillisSave ==
    /\ fg.pc = "ms_entry"
    /\ fg' = [Goto(fg, "ms_cli") EXCEPT !.oldSREG = fg.SREG_I]
    /\ FgOnly

\* cli(); -- line 50
MillisCli ==
    /\ fg.pc = "ms_cli"
    /\ fg' = [Goto(fg, "ms_load") EXCEPT !.SREG_I = Cli(fg.SREG_I), !.m = <<>>]
    /\ FgOnly

\* m = timer0_millis; -- line 51, the load of one byte
MillisLoad ==
    /\ fg.pc = "ms_load"
    /\ LET m == Append(fg.m, timer0_millis[Len(fg.m) + 1])
       IN fg' = [Goto(fg, IF Len(m) = 4 THEN "ms_restore" ELSE "ms_load") EXCEPT !.m = m]
    /\ FgOnly

\* SREG = oldSREG; -- line 52
MillisRestore ==
    /\ fg.pc = "ms_restore"
    /\ fg' = [Goto(fg, "ms_ret") EXCEPT !.SREG_I = fg.oldSREG]
    /\ FgOnly

\* return m; -- line 54
MillisReturn ==
    /\ fg.pc = "ms_ret"
    /\ fg' = Goto(fg, "ms_idle")
    /\ FgOnly

(***************************************************************************)
(* SpecMS: up to MaxCalls calls of millis(), made with interrupts enabled  *)
(* or disabled, while timer 0 overflows at any moment at which interrupts  *)
(* are enabled, up to MaxDrift clock units; the counter starts where an    *)
(* overflow carries into its second, third and fourth byte and where it    *)
(* wraps.                                                                  *)
(***************************************************************************)
MaxDrift == 6

MS_ClockStarts ==
    {U32(0, 0), U32(0, 255), U32(0, 65534), U32(255, 65535), U32(65535, 65533)}

\* the caller calls millis(), with interrupts enabled or disabled
CallMillis ==
    /\ fg.pc = "ms_idle"
    /\ fg.calls < MaxCalls
    /\ \E i \in BOOLEAN :
         fg' = [fg EXCEPT !.pc = "ms_entry", !.calls = fg.calls + 1,
                          !.SREG_I = i, !.before = i]
    /\ FgOnly

InitMS ==
    /\ QueueIdle
    /\ rx = RingBuffer_init(BLE_BUFFER_SIZE)
    /\ tx = RingBuffer_init(BLE_BUFFER_SIZE)
    /\ udrie = FALSE
    /\ wire = <<>>
    /\ rxStream = <<>> /\ rxPos = 0 /\ rxFree = 0 /\ rxGate = FALSE
    /\ rxLag = BLE_BUFFER_SIZE
    /\ seen = <<>>
    /\ timer0_millis \in MS_ClockStarts
    /\ timer0_fract \in {0, FRACT_MAX - 1}
    /\ charSigned = FALSE
    /\ deviceName = ZeroName
    /\ fg = [FgIdle EXCEPT !.pc = "ms_idle", !.top = "millis",
                           !.start = timer0_millis, !.timeout = MaxDrift]
    /\ uartBuffer = ZeroBuffer
    /\ operationMode = "dataMode"

NextMS ==
    \/ TimerIsr
    \/ CallMillis \/ MillisSave \/ MillisCli \/ MillisLoad \/ MillisRestore \/ MillisReturn

SpecMS == InitMS /\ [][NextMS]_vars

\* the bytes of the counter loaded so far are the bytes the counter holds
LoadedSoFar == \A i \in 1..Len(fg.m) : fg.m[i] = timer0_millis[i]

(***************************************************************************)
(* C35: millis() never returns a torn value: while it loads the counter    *)
(* the bytes loaded are those the counter holds, so that at the instant    *)
(* the last byte is loaded the value to be returned is the value of the    *)
(* counter, under every interleaving with the overflow handler; and when   *)
(* it returns, the interrupt enable bit is what it was at the call.        *)
(***************************************************************************)
C35_MillisIsNotTorn ==
    /\ fg.pc \in {"ms_load", "ms_restore"} => LoadedSoFar
    /\ fg.pc = "ms_restore" => fg.m = timer0_millis
    /\ fg.pc = "ms_ret" => fg.SREG_I = fg.before
    /\ fg.pc = "ms_ret" /\ ~fg.before => fg.m = timer0_millis

\* millis() called with interrupts enabled is about to return 0x00010001:
\* the counter went from 0x0000FFFE to 0x00010001 before the cli() of the
\* call and on to 0x00010003 after interrupts were enabled again
C35_Witness ==
    /\ fg.pc = "ms_ret"
    /\ fg.calls = 1
    /\ fg.before
    /\ fg.SREG_I
    /\ fg.start = U32(0, 65534)
    /\ fg.m = U32(1, 1)
    /\ timer0_millis = U32(1, 3)

\* the clock units gone by since the wait took its start, counted without
\* the subtraction of the code: for waits shorter than 65536 units, across
\* a carry out of the low half or the wrap of the counter
SinceStart ==
    IF Hi16(timer0_millis) = Hi16(fg.start)
    THEN Lo16(timer0_millis) - Lo16(fg.start)
    ELSE (65536 - Lo16(fg.start)) + Lo16(timer0_millis)

\* the foreground is at the deadline test of a wait, the operands in front
\* of the test being true
AtDeadlineTest ==
    /\ \/ fg.pc \in {"er_loop", "pl_loop", "cm_wait"}
       \/ fg.pc = "rb_loop" /\ fg.bytesRead < fg.length
    /\ fg' # fg

\* the wait goes on
WaitGoesOn == fg'.pc \in {"er_avail", "pl_avail", "rb_avail", "cm_count"}

\* the wait has ended at its deadline test
EndedAtDeadline ==
    /\ WaitReturned
    /\ \/ fg.top \in {"expectResponse", "parseLsCmd"}
       \/ fg.top = "bleReadBytes" /\ fg.bytesRead < fg.length

(***************************************************************************)
(* C36: the deadline tests of expectResponse, bleReadBytes, parseLsCmd and *)
(* of the poll of enterCommandMode go on exactly while fewer than timeout  *)
(* clock units have gone by since the start, also when the counter has     *)
(* wrapped since the start: a wait that ends at its deadline ends when     *)
(* timeout units have gone by, to the precision of one clock step, neither *)
(* earlier nor later.                                                      *)
(***************************************************************************)
C36_DeadlineExactAcrossTheWrap ==
    /\ [][AtDeadlineTest /\ ~fg.endReceived => (WaitGoesOn <=> SinceStart < fg.timeout)]_vars
    /\ [](EndedAtDeadline =>
            /\ SinceStart >= fg.timeout
            /\ SinceStart < fg.timeout + ClockStep)

\* parseLsCmd, started at 0xFFFFFFFD under an endless stream, has ended at
\* its deadline after the counter wrapped
C36_Witness ==
    /\ EndedAtDeadline
    /\ fg.top = "parseLsCmd"
    /\ rxStream # <<>>
    /\ fg.start = U32(65535, 65533)
    /\ Hi16(timer0_millis) = 0
    /\ SinceStart >= DEFAULT_CMD_TIMEOUT

\* head, tail and available() of a queue of the transport are indices of
\* its storage
IndicesInRange(q) ==
    /\ q.size = BLE_BUFFER_SIZE
    /\ q.head \in 0..(BLE_BUFFER_SIZE - 1)
    /\ q.tail \in 0..(BLE_BUFFER_SIZE - 1)
    /\ RingBuffer_available(q) \in 0..(BLE_BUFFER_SIZE - 1)

(***************************************************************************)
(* C37: in every reachable state, after any sequence of bleRead,           *)
(* blePrintChar, bleRxFlush and bleTxFlush and any interleaving of the     *)
(* two handlers with the steps of the foreground, head and tail of both    *)
(* queues lie in 0..63 and available() lies in 0..63.                      *)
(***************************************************************************)
C37_IndicesInRange == IndicesInRange(rx) /\ IndicesInRange(tx)

\* the receive handler ran while bleRxFlush had reset head and not yet
\* tail: head is behind tail and available() is 63, taken round the mask
C37_Witness ==
    /\ fg.pc = "rf_tail"
    /\ rx.head = 1
    /\ rx.tail = 2
    /\ RingBuffer_available(rx) = BLE_BUFFER_SIZE - 1
    /\ RingBuffer_is_full(rx)

\* the foreground is inside blePrintChar or bleTxFlush
InWriteOrTxFlush ==
    fg.pc \in {"wp_check", "wp_data", "wp_head", "wp_load", "wp_store",
               "tf_udrie", "tf_store", "tf_head", "tf_tail"}

(***************************************************************************)
(* C38: whenever the foreground is not inside blePrintChar or bleTxFlush,  *)
(* a TX queue that is not empty has its transmit-ready interrupt enabled,  *)
(* wherever the transmit handler comes in between the steps of the         *)
(* foreground, the load and the store of UCSR0B included.                  *)
(***************************************************************************)
C38_QueuedBytesHaveTheirInterrupt ==
    ~InWriteOrTxFlush /\ ~RingBuffer_is_empty(tx) => udrie

\* the handler has sent all that was queued and the first byte written,
\* finding the queue empty in between; the second byte written is queued
\* and the interrupt is enabled
C38_Witness ==
    /\ fg.pc = "idle"
    /\ fg.log # <<>>
    /\ Last(fg.log) = [fn |-> "blePrintChar", ret |-> TRUE]
    /\ Queued(tx) = <<201>>
    /\ wire = Counted(1, 4) \o <<200>>
    /\ udrie

(***************************************************************************)
(* SpecOV: expectResponse, parseLsCmd or readUntilCR reads a line of       *)
(* OV_Lens characters, longer than the scratch buffer or filling it to the *)
(* last cell, ended by CR LF, or a few characters without an end; the      *)
(* buffer starts full of the characters of earlier answers.                *)
(***************************************************************************)
OV_Lens == {126, 127, 130}

OV_Streams ==
    {Filler(n) \o <<CR, LF>> : n \in OV_Lens} \cup {Filler(2)}

\* the buffer with a character of an earlier answer in every cell
FullBuffer == [i \in 0..(DEFAULT_INPUT_BUFFER_SIZE - 1) |-> Ord["K"]]

OV_Readers ==
    { [FgIdle EXCEPT !.pc = "er_entry", !.stack = <<"done">>, !.top = "expectResponse",
                     !.expected = AOK_RESP, !.timeout = DEFAULT_CMD_TIMEOUT],
      [FgIdle EXCEPT !.pc = "pl_entry", !.stack = <<"done">>, !.top = "parseLsCmd",
                     !.targetUuid = PL_Uuid, !.targetProperty = 2],
      [FgIdle EXCEPT !.pc = "ru_init", !.stack = <<"done">>, !.top = "readUntilCR"] }

InitOV ==
    /\ QueueIdle
    /\ rx = RingBuffer_init(BLE_BUFFER_SIZE)
    /\ tx = RingBuffer_init(BLE_BUFFER_SIZE)
    /\ udrie = FALSE
    /\ wire = <<>>
    /\ rxStream \in OV_Streams
    /\ rxPos = 0
    /\ rxFree = 0
    /\ rxGate = FALSE
    /\ rxLag = SlowLag
    /\ seen = <<>>
    /\ timer0_millis \in ClockStarts
    /\ timer0_fract \in FractStarts
    /\ charSigned \in BOOLEAN
    /\ deviceName = ZeroName
    /\ fg \in OV_Readers
    /\ uartBuffer = FullBuffer
    /\ operationMode = "cmdMode"

NextOV ==
    \/ RxIsr \/ TimerWhileWaiting
    \/ RxFlushHead \/ RxFlushTail
    \/ ExpectEntry \/ ExpectInit \/ ExpectLoop \/ ExpectAvail \/ ExpectRead
    \/ ParseLsEntry \/ ParseLsInit \/ ParseLsLoop \/ ParseLsAvail
    \/ ParseLsRead \/ ParseLsTail
    \/ ReadUntilInit \/ ReadUntilLoop \/ ReadUntilAvail \/ ReadUntilRead \/ ReadUntilEnd

SpecOV == InitOV /\ [][NextOV]_vars

ReaderReturned == fg.pc = "done"

\* the characters of the line the module sends, without its end
LineSent == UntilCR(rxStream)

OverLong == Len(LineSent) > DEFAULT_INPUT_BUFFER_SIZE - 1

\* the index at which the reader writes next
WriteIndex == IF fg.top = "readUntilCR" THEN fg.bytesRead ELSE fg.index

\* there is a NUL in the buffer
Terminated == \E i \in 0..(DEFAULT_INPUT_BUFFER_SIZE - 1) : uartBuffer[i] = NUL

\* every character of the line has been taken off the RX queue
LineTaken == Len(seen) >= Len(LineSent)

\* the buffer holds the first 127 characters of s, or all of s
Keeps(s) ==
    CStrFrom(uartBuffer, 0, DEFAULT_INPUT_BUFFER_SIZE)
        = Take(s, DEFAULT_INPUT_BUFFER_SIZE - 1)

\* what readUntilCR keeps: the characters before the carriage return
KeptOfLine == Keeps(UntilCR(seen))

\* what expectResponse keeps: the characters before the line feed
KeptToLineFeed ==
    seen # <<>> /\ seen[Len(seen)] = LF /\ Keeps(SubSeq(seen, 1, Len(seen) - 1))

(***************************************************************************)
(* C39 as stated: expectResponse, parseLsCmd and readUntilCR keep the      *)
(* write index at or below 127, drop the excess characters of an over-long *)
(* line, and leave the buffer NUL-terminated when they return.             *)
(***************************************************************************)
C39_Original_ExcessDropped ==
    /\ WriteIndex <= DEFAULT_INPUT_BUFFER_SIZE - 1
    /\ ReaderReturned => Terminated
    /\ ReaderReturned /\ OverLong => LineTaken

(***************************************************************************)
(* C39: expectResponse, parseLsCmd and readUntilCR keep the write index at *)
(* or below 127 and leave the buffer NUL-terminated when they return.      *)
(* expectResponse and parseLsCmd take the excess characters of an          *)
(* over-long line off the RX queue without storing them; readUntilCR       *)
(* returns 127 with the first 127 characters in the buffer and leaves the  *)
(* excess characters in the RX queue or still to be received.              *)
(***************************************************************************)
C39_IndexBoundedExcessNotStored ==
    /\ WriteIndex <= DEFAULT_INPUT_BUFFER_SIZE - 1
    /\ ReaderReturned => Terminated
    /\ ReaderReturned /\ OverLong /\ fg.top # "readUntilCR" => LineTaken
    /\ ReaderReturned /\ fg.top = "expectResponse" /\ HasLF(seen) => KeptToLineFeed
    /\ ReaderReturned /\ fg.top = "readUntilCR" =>
          /\ KeptOfLine
          /\ OverLong => /\ fg.val = DEFAULT_INPUT_BUFFER_SIZE - 1
                         /\ seen = Take(LineSent, DEFAULT_INPUT_BUFFER_SIZE - 1)

\* readUntilCR has returned 127 on a line of 130 characters: the characters
\* from the 128th on have not been taken
C39_Witness ==
    /\ ReaderReturned
    /\ fg.top = "readUntilCR"
    /\ Len(LineSent) = 130
    /\ fg.val = 127
    /\ Len(seen) = 127
    /\ uartBuffer[127] = NUL

(***************************************************************************)
(* SpecSW: one call of swInit in a session that is in either mode, with    *)
(* any of the replies to R,1 and to the escape sequence.                   *)
(***************************************************************************)
InitSW ==
    /\ QueueIdle
    /\ rx = RingBuffer_init(BLE_BUFFER_SIZE)
    /\ tx = RingBuffer_init(BLE_BUFFER_SIZE)
    /\ udrie \in BOOLEAN
    /\ wire = <<>>
    /\ rxStream = <<>> /\ rxPos = 0 /\ rxFree = 0 /\ rxGate = FALSE
    /\ rxLag = BLE_BUFFER_SIZE
    /\ seen = <<>>
    /\ timer0_millis = U32(0, 0) /\ timer0_fract = 0
    /\ charSigned \in BOOLEAN
    /\ deviceName = ZeroName
    /\ uartBuffer \in {ZeroBuffer, LastAnswer}
    /\ operationMode \in {"dataMode", "cmdMode"}
    \* fg.modeAtCall records the mode in which swInit is called
    /\ fg = [Invoked([FgIdle EXCEPT !.pc = "idle"], "swInit", "sw_entry")
                EXCEPT !.modeAtCall = operationMode]

NextSW ==
    \/ RebootSend \/ RebootExpect
    \/ EnterCommandModeSend \/ EnterCommandModePoll
    \/ SwInitEntry \/ SwInitFirst \/ SwInitEntered \/ SwInitSecond \/ SwInitReturn

SpecSW == InitSW /\ [][NextSW]_vars

SwInitFailed == SwInitReturned /\ ~fg.ret

\* the enterCommandMode called by swInit has returned true
EnteredCommandMode ==
    \E i \in 1..Len(fg.log) : fg.log[i] = [fn |-> "enterCommandMode", ret |-> TRUE]

(***************************************************************************)
(* C40 as stated: if swInit returns false, the session mode is the same as *)
(* it was before the call.                                                 *)
(***************************************************************************)
C40_Original_ModeKeptOnFailure ==
    SwInitFailed => operationMode = fg.modeAtCall

(***************************************************************************)
(* C40: if swInit returns false, the session mode is the same as it was    *)
(* before the call unless the enterCommandMode that swInit called found    *)
(* the prompt; in that case the second reboot has failed and the mode is   *)
(* cmdMode, whatever it was before the call.                               *)
(***************************************************************************)
C40_ModeKeptUnlessCommandModeEntered ==
    SwInitFailed =>
        operationMode = (IF EnteredCommandMode THEN "cmdMode" ELSE fg.modeAtCall)

\* swInit has returned false after a failed reboot, a prompt and a second
\* failed reboot: the mode is cmdMode
C40_Witness ==
    /\ SwInitFailed
    /\ fg.log = <<[fn |-> "reboot", ret |-> FALSE],
                  [fn |-> "enterCommandMode", ret |-> TRUE],
                  [fn |-> "reboot", ret |-> FALSE],
                  [fn |-> "swInit", ret |-> FALSE]>>
    /\ Contains(wire, ENTER_CMD)
    /\ fg.modeAtCall = "dataMode"
    /\ operationMode = "cmdMode"

====
